---- MODULE Spec2Model ----
(***************************************************************************)
(* A model of the GeneralBasic compiler: the URCL emitter and its peephole *)
(* optimizer (src/emitters/urcl.py), the emitter contract (src/emitter.py),*)
(* the typed IR with its resolver and lowering (src/compiler.py) and the   *)
(* driver sequence (src/gb.py).                                            *)
(*                                                                         *)
(* Text is modelled as Python has it: a string is a sequence of one-       *)
(* character strings, an instruction is a sequence of tokens (strings),    *)
(* the instruction buffer is a sequence of instructions.                   *)
(***************************************************************************)
EXTENDS Integers, Sequences, FiniteSets, TLC

VARIABLES
    insts,      \* URCLEmitter._insts
    current,    \* URCLEmitter._current
    internal,   \* URCLEmitter._internal
    optimize,   \* URCLEmitter._optimize
    registers,  \* commit: the stack pass's register map
    stack,      \* commit: the stack pass's virtual stack
    i,          \* commit: the loop index of the running pass
    stream,     \* the output sink: the lines written so far
    pc,         \* where the run is
    err,        \* the exception that ended the run ("" while none)
    lastOp,     \* the last operation requested
    calls,      \* the number of emitter operations requested so far
    input,      \* the buffer as it was when commit was entered
    ir          \* the front-end state of the run (types, callables, modules)

vars == <<insts, current, internal, optimize, registers, stack, i, stream, pc, err, lastOp, calls, input, ir>>

-----------------------------------------------------------------------------
(* Python strings *)

LowerCase == <<"a","b","c","d","e","f","g","h","i","j","k","l","m",
               "n","o","p","q","r","s","t","u","v","w","x","y","z">>
UpperCase == <<"A","B","C","D","E","F","G","H","I","J","K","L","M",
               "N","O","P","Q","R","S","T","U","V","W","X","Y","Z">>
Digits == <<"0","1","2","3","4","5","6","7","8","9">>

Range(s) == {s[k] : k \in DOMAIN s}

IndexIn(c, s) == CHOOSE k \in DOMAIN s : s[k] = c

LowerCaseSet == Range(LowerCase)
DigitSet == Range(Digits)
WordCharSet == Range(LowerCase) \cup Range(UpperCase) \cup Range(Digits) \cup {"_"}
UpperOf == [c \in LowerCaseSet |-> UpperCase[IndexIn(c, LowerCase)]]

\* str.upper(), one character
UpperChar(c) == IF c \in LowerCaseSet THEN UpperOf[c] ELSE c

\* str.upper()
upper(s) == [k \in DOMAIN s |-> UpperChar(s[k])]

\* str.startswith(prefix)
startswith(s, prefix) ==
    /\ Len(s) >= Len(prefix)
    /\ \A k \in DOMAIN prefix : s[k] = prefix[k]

\* str.endswith(suffix)
endswith(s, suffix) ==
    /\ Len(s) >= Len(suffix)
    /\ \A k \in DOMAIN suffix : s[Len(s) - Len(suffix) + k] = suffix[k]

IsDigit(c) == c \in DigitSet

\* the regular expression class \w
IsWordChar(c) == c \in WordCharSet

HexDigits == <<"0","1","2","3","4","5","6","7","8","9","A","B","C","D","E","F">>
HexDigitSet == Range(HexDigits)
HexOf == [c \in HexDigitSet |-> IndexIn(c, HexDigits) - 1]

\* the value of one digit of int(text, base)
HexValue(c) == HexOf[UpperChar(c)]

\* the value of a digit string in a base (int(text, base) on digits only)
RECURSIVE DigitsValue(_, _)
DigitsValue(s, base) ==
    IF Len(s) = 0 THEN 0
    ELSE DigitsValue(SubSeq(s, 1, Len(s) - 1), base) * base + HexValue(s[Len(s)])

\* str(n) of a natural number
RECURSIVE StrNat(_)
StrNat(n) == IF n < 10 THEN <<Digits[n + 1]>> ELSE StrNat(n \div 10) \o <<Digits[(n % 10) + 1]>>

\* str(n)
str(n) == IF n < 0 THEN <<"-">> \o StrNat(-n) ELSE StrNat(n)

\* " ".join(tokens)
RECURSIVE join(_)
join(tokens) ==
    IF Len(tokens) = 0 THEN <<>>
    ELSE IF Len(tokens) = 1 THEN tokens[1]
    ELSE tokens[1] \o <<" ">> \o join(Tail(tokens))

\* the part of a written line before its first space
RECURSIVE FirstWord(_)
FirstWord(line) ==
    IF Len(line) = 0 \/ line[1] = " " THEN <<>>
    ELSE <<line[1]>> \o FirstWord(Tail(line))

\* list.pop(k) on a 1-based sequence
RemoveAt(s, k) == SubSeq(s, 1, k - 1) \o SubSeq(s, k + 1, Len(s))

-----------------------------------------------------------------------------
(* The tokens the back-end writes *)

t_psh == <<"p","s","h">>
t_pop == <<"p","o","p">>
t_mov == <<"m","o","v">>
t_add == <<"a","d","d">>
t_sub == <<"s","u","b">>
t_mlt == <<"m","l","t">>
t_div == <<"d","i","v">>
t_mod == <<"m","o","d">>
t_not == <<"n","o","t">>
t_and == <<"a","n","d">>
t_or  == <<"o","r">>
t_xor == <<"x","o","r">>
t_bsl == <<"b","s","l">>
t_bsr == <<"b","s","r">>
t_bre == <<"b","r","e">>
t_bne == <<"b","n","e">>
t_brl == <<"b","r","l">>
t_brg == <<"b","r","g">>
t_ble == <<"b","l","e">>
t_bge == <<"b","g","e">>
t_brz == <<"b","r","z">>
t_bnz == <<"b","n","z">>
t_cal == <<"c","a","l">>
t_ret == <<"r","e","t">>
t_jmp == <<"j","m","p">>
t_lod == <<"l","o","d">>
t_str == <<"s","t","r">>
t_nop == <<"n","o","p">>
t_R0 == <<"R","0">>
t_R1 == <<"R","1">>
t_R2 == <<"R","2">>
t_R3 == <<"R","3">>
t_SP == <<"S","P">>
t_BP == <<"B","P">>

\* the same words as the regular expressions of the optimizers spell them
U_PSH == <<"P","S","H">>
U_POP == <<"P","O","P">>
U_MOV == <<"M","O","V">>
U_ADD == <<"A","D","D">>
U_SUB == <<"S","U","B">>
U_RET == <<"R","E","T">>
U_CAL == <<"C","A","L">>
U_JMP == <<"J","M","P">>
U_STR == <<"S","T","R">>
U_NOP == <<"N","O","P">>

-----------------------------------------------------------------------------
(* Python values held by the stack pass: None, an int or a str *)

None == [t |-> "none", n |-> 0, s |-> <<>>]
IntV(n) == [t |-> "int", n |-> n, s |-> <<>>]
StrV(s) == [t |-> "str", n |-> 0, s |-> s]

isinstance_int(v) == v.t = "int"

\* the result of a call that returns a number or raises
Ok(n) == [ok |-> TRUE, v |-> n, exc |-> ""]
Raise(e) == [ok |-> FALSE, v |-> 0, exc |-> e]

\* the result of a call handed on: its exception, or what F makes of its value
Bind(r, F(_)) == IF r.ok THEN F(r.v) ELSE r

-----------------------------------------------------------------------------
(* compiler.parse_value *)

AllIn(s, from, chars) == \A k \in from..Len(s) : s[k] \in chars

\* re.match(r"^\-?((0X[0-9A-F]+)|(0O[0-7]+)|(0B[01]+)|([1-9][0-9]+)|([0-9]))$", u)
ValueRegexBody(u) ==
    \/ /\ startswith(u, <<"0","X">>)
       /\ Len(u) > 2
       /\ AllIn(u, 3, HexDigitSet)
    \/ /\ startswith(u, <<"0","O">>)
       /\ Len(u) > 2
       /\ AllIn(u, 3, {"0","1","2","3","4","5","6","7"})
    \/ /\ startswith(u, <<"0","B">>)
       /\ Len(u) > 2
       /\ AllIn(u, 3, {"0","1"})
    \/ /\ Len(u) >= 2
       /\ u[1] \in DigitSet \ {"0"}
       /\ AllIn(u, 2, DigitSet)
    \/ /\ Len(u) = 1
       /\ IsDigit(u[1])

ValueRegex(u) ==
    IF startswith(u, <<"-">>) THEN ValueRegexBody(Tail(u)) ELSE ValueRegexBody(u)

\* int(text) on a string of ASCII characters: an optional sign and digits
IntOfText(text) ==
    LET signed == Len(text) > 0 /\ text[1] \in {"-", "+"}
        body == IF signed THEN Tail(text) ELSE text
    IN  IF Len(body) > 0 /\ AllIn(body, 1, DigitSet)
        THEN Ok(IF signed /\ text[1] = "-" THEN -DigitsValue(body, 10) ELSE DigitsValue(body, 10))
        ELSE Raise("ValueError")

parse_value(text) ==
    IF ~ValueRegex(upper(text)) THEN Raise("Exception: Invalid value.")
    ELSE LET negate == startswith(text, <<"-">>)
             body == IF negate THEN Tail(text) ELSE text
             r == IF startswith(body, <<"0","X">>) THEN Ok(DigitsValue(SubSeq(body, 3, Len(body)), 16))
                  ELSE IF startswith(body, <<"0","O">>) THEN Ok(DigitsValue(SubSeq(body, 3, Len(body)), 8))
                  ELSE IF startswith(body, <<"0","B">>) THEN Ok(DigitsValue(SubSeq(body, 3, Len(body)), 2))
                  ELSE IntOfText(body)
         IN  IF r.ok /\ negate THEN Ok(-r.v) ELSE r

-----------------------------------------------------------------------------
(* src/emitters/urcl.py: helpers of the optimizers *)

\* re.match(r"(B(R[ELGZ])|([LG]E)|(N[EZ]))|(JMP)|(CAL)|(PSH)|(STR)", u): a prefix match
ReadonlyRegex(u) ==
    \/ Len(u) >= 3 /\ u[1] = "B" /\ u[2] = "R" /\ u[3] \in {"E","L","G","Z"}
    \/ Len(u) >= 2 /\ u[1] \in {"L","G"} /\ u[2] = "E"
    \/ Len(u) >= 2 /\ u[1] = "N" /\ u[2] \in {"E","Z"}
    \/ startswith(u, U_JMP)
    \/ startswith(u, U_CAL)
    \/ startswith(u, U_PSH)
    \/ startswith(u, U_STR)

is_readonly_reg_instruction(inst) ==
    \/ startswith(inst[1], <<".">>)
    \/ startswith(inst[1], <<"/","/">>)
    \/ ReadonlyRegex(upper(inst[1]))

\* every operand of the buffer is a str, so the isinstance(operand, int) arm is not taken
get_constant_operand(operand) == IntOfText(operand)

\* re.match("^\w.*$", u)
WordRegex(u) == Len(u) >= 1 /\ IsWordChar(u[1])

\* re.match("^(ADD)|(SUB)$", u): "^(ADD)" is a prefix match, "(SUB)$" a full one
AddSubRegex(u) == startswith(u, U_ADD) \/ u = U_SUB

-----------------------------------------------------------------------------
(* src/emitters/urcl.py: commit's register map *)

EmptyRegisters == [x \in {} |-> None]

\* registers = { "SP": "BP" }
InitialRegisters == [x \in {t_SP} |-> StrV(t_BP)]

_get_reg(regs, name) ==
    LET u == upper(name)
    IN  IF u = t_R0 THEN IntV(0)
        ELSE IF u \in DOMAIN regs THEN regs[u]
        ELSE None

_set_reg(regs, name, value) ==
    LET u == upper(name)
    IN  IF u # t_R0
        THEN [x \in (DOMAIN regs) \cup {u} |-> IF x = u THEN value ELSE regs[x]]
        ELSE regs

-----------------------------------------------------------------------------
(* src/emitters/urcl.py: the stack optimizers. Each returns the buffer, the *)
(* register map and the virtual stack it leaves, or the exception it raises *)

Pass(ins, regs, stk) == [insts |-> ins, registers |-> regs, stack |-> stk, err |-> ""]
Fatal(ins, regs, stk, e) == [insts |-> ins, registers |-> regs, stack |-> stk, err |-> e]

PushStackOptimizer(k, ins, regs, stk) ==
    LET inst == ins[k]
    IN  IF Len(inst) < 2 THEN Fatal(ins, regs, stk, "IndexError")
        ELSE LET r == parse_value(inst[2])
                 value == inst[2]
             IN  IF r.ok
                 THEN Pass([ins EXCEPT ![k] = <<t_nop>>], regs, Append(stk, IntV(r.v)))
                 ELSE IF startswith(upper(value), <<"R">>) \/ upper(value) = t_SP
                 THEN Pass(ins, regs, Append(stk, _get_reg(regs, value)))
                 ELSE Pass(ins, regs, Append(stk, StrV(value)))

PopStackOptimizer(k, ins, regs, stk) ==
    LET inst == ins[k]
        value == IF Len(stk) > 0 THEN stk[Len(stk)] ELSE None
        stk1 == IF Len(stk) > 0 THEN SubSeq(stk, 1, Len(stk) - 1) ELSE stk
    IN  IF Len(inst) < 2 THEN Fatal(ins, regs, stk1, "IndexError")
        ELSE LET same == _get_reg(regs, inst[2]) = value /\ value # None
                 ins1 == IF same THEN [ins EXCEPT ![k] = <<t_pop, t_R0>>] ELSE ins
                 regs1 == IF same THEN regs ELSE _set_reg(regs, inst[2], value)
                 ins2 == IF isinstance_int(value) THEN [ins1 EXCEPT ![k] = <<t_nop>>] ELSE ins1
             IN  Pass(ins2, regs1, stk1)

\* the operand substitution of lines 72-75
SubstituteOperands(inst, regs) ==
    LET first == IF is_readonly_reg_instruction(inst) THEN 2 ELSE 3
    IN  [j \in DOMAIN inst |->
            IF j < first THEN inst[j]
            ELSE LET value == _get_reg(regs, inst[j])
                 IN  IF isinstance_int(value) THEN str(value.n)
                     ELSE IF value = StrV(t_BP) THEN t_R3
                     ELSE inst[j]]

Max(a, b) == IF a > b THEN a ELSE b

Nones(n) == [k \in 1..n |-> None]

\* lines 80-101: an instruction whose destination is SP, on the virtual stack
StackModification(inst, stk) ==
    LET bad == [stack |-> stk, err |-> "RuntimeError: This type of stack modification is not allowed."]
        c == IF Len(inst) = 4 THEN get_constant_operand(inst[4]) ELSE Raise("")
    IN  IF Len(inst) = 4 /\ upper(inst[3]) = t_SP /\ c.ok
        THEN IF upper(inst[1]) = U_ADD
             THEN IF c.v > Len(stk)
                  THEN [stack |-> <<>>, err |-> "RuntimeError: Virtual stack underflow."]
                  ELSE [stack |-> SubSeq(stk, 1, Len(stk) - Max(c.v, 0)), err |-> ""]
             ELSE IF upper(inst[1]) = U_SUB
             THEN [stack |-> stk \o Nones(Max(c.v, 0)), err |-> ""]
             ELSE bad
        ELSE IF Len(inst) = 4 /\ upper(inst[3]) = t_R3 /\ c.ok
        THEN IF upper(inst[1]) = U_SUB
             THEN IF c.v + 1 < 0
                  THEN [stack |-> <<>>, err |-> "RuntimeError: Virtual stack underflow."]
                  ELSE IF Len(stk) > c.v + 1
                  THEN [stack |-> SubSeq(stk, 1, c.v + 1), err |-> ""]
                  ELSE [stack |-> stk, err |-> ""]
             ELSE bad
        ELSE bad

GeneralStackOptimizer(k, ins, regs, stk) ==
    LET registersReadOnly == is_readonly_reg_instruction(ins[k])
        inst == SubstituteOperands(ins[k], regs)
        ins1 == [ins EXCEPT ![k] = inst]
    IN  IF Len(inst) > 1
        THEN IF upper(inst[1]) = U_CAL THEN Pass(ins1, EmptyRegisters, stk)
             ELSE IF ~registersReadOnly
             THEN IF inst[2] = t_SP
                  THEN LET m == StackModification(inst, stk)
                       IN  IF m.err # "" THEN Fatal(ins1, regs, m.stack, m.err)
                           ELSE Pass(ins1, _set_reg(regs, inst[2], None), m.stack)
                  ELSE Pass(ins1, _set_reg(regs, inst[2], None), stk)
             ELSE Pass(ins1, regs, stk)
        ELSE IF upper(inst[1]) = U_RET THEN Pass(ins1, InitialRegisters, stk)
        ELSE Pass(ins1, regs, stk)

StackVerificationOptimizer(k, ins, regs, stk) ==
    IF Len(stk) # 0
    THEN Fatal(ins, regs, stk, "RuntimeError: Stack must be empty before returning.")
    ELSE Pass(ins, regs, stk)

-----------------------------------------------------------------------------
(* src/emitters/urcl.py: the pair, mono and code optimizers. Each returns   *)
(* whether it rewrote the buffer, the buffer it leaves, or its exception    *)

Kept(ins) == [fired |-> FALSE, insts |-> ins, err |-> ""]
Rewritten(ins) == [fired |-> TRUE, insts |-> ins, err |-> ""]
Failed(ins, e) == [fired |-> FALSE, insts |-> ins, err |-> e]

\* a variant that leaves a push and a pop of different operands as they are
PushFollowedByPopOptimizer_same_operand_only(cur, nxt, ins) ==
    IF Len(ins[nxt]) < 2 \/ Len(ins[cur]) < 2 THEN Failed(ins, "IndexError")
    ELSE IF ins[nxt][2] = ins[cur][2]
    THEN Rewritten(RemoveAt(RemoveAt(ins, nxt), cur))
    ELSE Kept(ins)

PushFollowedByPopOptimizer(cur, nxt, ins) ==
    IF Len(ins[nxt]) < 2 \/ Len(ins[cur]) < 2 THEN Failed(ins, "IndexError")
    ELSE IF ins[nxt][2] = ins[cur][2]
    THEN Rewritten(RemoveAt(RemoveAt(ins, nxt), cur))
    ELSE Rewritten(RemoveAt([ins EXCEPT ![nxt] = <<t_mov, ins[nxt][2], ins[cur][2]>>], cur))

\* a variant that takes the constant of the first instruction as added
RepeatedAddAndSubtractOptimizer_adding_first(cur, nxt, ins) ==
    IF Len(ins[cur]) < 4 THEN Failed(ins, "IndexError")
    ELSE IF ~get_constant_operand(ins[cur][4]).ok THEN Kept(ins)
    ELSE IF Len(ins[nxt]) < 4 THEN Failed(ins, "IndexError")
    ELSE IF ~get_constant_operand(ins[nxt][4]).ok THEN Kept(ins)
    ELSE IF ins[cur][2] = ins[nxt][3] /\ ins[cur][2] = ins[nxt][2]
    THEN LET a0 == get_constant_operand(ins[cur][4]).v
             b0 == get_constant_operand(ins[nxt][4]).v
             a == a0
             b == IF upper(ins[nxt][1]) = U_SUB THEN -b0 ELSE b0
             value == a + b
             merged == IF value < 0 THEN <<t_sub, ins[nxt][2], ins[cur][3], str(-value)>>
                       ELSE IF value > 0 THEN <<t_add, ins[nxt][2], ins[cur][3], str(value)>>
                       ELSE <<t_mov, ins[nxt][2], ins[cur][3]>>
         IN  Rewritten(RemoveAt([ins EXCEPT ![cur] = merged], nxt))
    ELSE Kept(ins)

RepeatedAddAndSubtractOptimizer(cur, nxt, ins) ==
    IF Len(ins[cur]) < 4 THEN Failed(ins, "IndexError")
    ELSE IF ~get_constant_operand(ins[cur][4]).ok THEN Kept(ins)
    ELSE IF Len(ins[nxt]) < 4 THEN Failed(ins, "IndexError")
    ELSE IF ~get_constant_operand(ins[nxt][4]).ok THEN Kept(ins)
    ELSE IF ins[cur][2] = ins[nxt][3] /\ ins[cur][2] = ins[nxt][2]
    THEN LET a0 == get_constant_operand(ins[cur][4]).v
             b0 == get_constant_operand(ins[nxt][4]).v
             a == IF upper(ins[cur][1]) = U_SUB THEN -a0 ELSE a0
             b == IF upper(ins[nxt][1]) = U_SUB THEN -b0 ELSE b0
             value == a + b
             merged == IF value < 0 THEN <<t_sub, ins[nxt][2], ins[cur][3], str(-value)>>
                       ELSE IF value > 0 THEN <<t_add, ins[nxt][2], ins[cur][3], str(value)>>
                       ELSE <<t_mov, ins[nxt][2], ins[cur][3]>>
         IN  Rewritten(RemoveAt([ins EXCEPT ![cur] = merged], nxt))
    ELSE Kept(ins)

OverwrittenResultOptimizer(cur, nxt, ins) ==
    IF ~(is_readonly_reg_instruction(ins[cur]) \/ is_readonly_reg_instruction(ins[nxt]))
    THEN IF Len(ins[cur]) > 1 /\ Len(ins[nxt]) > 1 /\ ins[cur][2] = ins[nxt][2]
         THEN IF \E j \in 3..Len(ins[nxt]) : ins[nxt][j] = ins[cur][2]
              THEN Kept(ins)
              ELSE Rewritten(RemoveAt(ins, cur))
         ELSE Kept(ins)
    ELSE Kept(ins)

JumpNextOptimizer(cur, nxt, ins) ==
    IF Len(ins[cur]) < 2 THEN Failed(ins, "IndexError")
    ELSE IF ins[cur][2] = ins[nxt][1] THEN Rewritten(RemoveAt(ins, cur))
    ELSE Kept(ins)

\* a variant that blanks the move instead of deleting it
VoidMoveOptimizer_blanking(k, ins) ==
    IF Len(ins[k]) < 3 THEN Failed(ins, "IndexError")
    ELSE IF ins[k][2] = ins[k][3] \/ ins[k][2] = t_R0
    THEN Rewritten([ins EXCEPT ![k] = <<t_nop>>])
    ELSE Kept(ins)

VoidMoveOptimizer(k, ins) ==
    IF Len(ins[k]) < 3 THEN Failed(ins, "IndexError")
    ELSE IF ins[k][2] = ins[k][3] \/ ins[k][2] = t_R0 THEN Rewritten(RemoveAt(ins, k))
    ELSE Kept(ins)

CommentOptimizer(k, ins) == Rewritten(RemoveAt(ins, k))

\* a variant that collects the labels that begin with ".___"
IsCollectedLabel_with_three_underscores(inst) == startswith(inst[1], <<".","_","_","_">>)

\* the label lines LabelOptimizer collects (line 180)
IsCollectedLabel(inst) == startswith(inst[1], <<".","_","_">>)

\* lines 181-186: the number of operands that name the label
IsReferenced(label, ins) ==
    \E k \in DOMAIN ins : \E j \in 2..Len(ins[k]) : ins[k][j] = label

RECURSIVE RemoveUnreferenced(_, _)
RemoveUnreferenced(rest, all) ==
    IF Len(rest) = 0 THEN <<>>
    ELSE IF IsCollectedLabel(rest[1]) /\ ~IsReferenced(rest[1][1], all)
    THEN RemoveUnreferenced(Tail(rest), all)
    ELSE <<rest[1]>> \o RemoveUnreferenced(Tail(rest), all)

LabelOptimizer(ins) ==
    LET out == RemoveUnreferenced(ins, ins)
    IN  [fired |-> Len(out) # Len(ins), insts |-> out, err |-> ""]

-----------------------------------------------------------------------------
(* URCLEmitter: the optimizer list and commit *)

\* the default value of __init__'s optimizers, in its order
optimizers ==
    << "PushStackOptimizer", "PopStackOptimizer", "GeneralStackOptimizer",
       "StackVerificationOptimizer", "PushFollowedByPopOptimizer",
       "RepeatedAddAndSubtractOptimizer", "OverwrittenResultOptimizer",
       "JumpNextOptimizer", "VoidMoveOptimizer", "LabelOptimizer" >>

IsStackOptimizer(o) ==
    o \in {"PushStackOptimizer", "PopStackOptimizer", "GeneralStackOptimizer",
           "StackVerificationOptimizer"}
IsPairOptimizer(o) ==
    o \in {"PushFollowedByPopOptimizer", "RepeatedAddAndSubtractOptimizer",
           "OverwrittenResultOptimizer", "JumpNextOptimizer"}
IsMonoOptimizer(o) == o \in {"VoidMoveOptimizer", "CommentOptimizer"}
IsCodeOptimizer(o) == o \in {"LabelOptimizer"}

\* get_regex of the stack and mono optimizers, get_regex_current of the pair
\* optimizers, matched as re.match(f"^{regex}$", u)
MatchesRegex(o, u) ==
    CASE o = "PushStackOptimizer" -> u = U_PSH
      [] o = "PopStackOptimizer" -> u = U_POP
      [] o = "GeneralStackOptimizer" -> WordRegex(u)
      [] o = "StackVerificationOptimizer" -> u = U_RET
      [] o = "PushFollowedByPopOptimizer" -> u = U_PSH
      [] o = "RepeatedAddAndSubtractOptimizer" -> AddSubRegex(u)
      [] o = "OverwrittenResultOptimizer" -> WordRegex(u)
      [] o = "JumpNextOptimizer" -> u = U_JMP
      [] o = "VoidMoveOptimizer" -> u = U_MOV
      [] o = "CommentOptimizer" -> startswith(u, <<"/","/">>)
      [] OTHER -> FALSE

\* get_regex_next of the pair optimizers
MatchesRegexNext(o, u) ==
    CASE o = "PushFollowedByPopOptimizer" -> u = U_POP
      [] o = "RepeatedAddAndSubtractOptimizer" -> AddSubRegex(u)
      [] o = "OverwrittenResultOptimizer" -> WordRegex(u)
      [] o = "JumpNextOptimizer" -> startswith(u, <<".">>)
      [] OTHER -> FALSE

get_allow_labels_next(o) == o = "JumpNextOptimizer"

\* URCLEmitter._next; 0 stands for None
_next(ins, index, allowLabels) ==
    LET found == {k \in (index + 1)..Len(ins) :
                    ~(\/ startswith(ins[k][1], <<".">>) /\ ~allowLabels
                      \/ startswith(ins[k][1], <<"/","/">>)
                      \/ upper(ins[k][1]) = U_NOP)}
    IN  IF found = {} THEN 0 ELSE CHOOSE k \in found : \A m \in found : k <= m

\* lines 246-249: the first stack optimizer of the list whose regex matches, applied
RECURSIVE StackDispatch(_, _, _, _, _)
StackDispatch(o, k, ins, regs, stk) ==
    IF o > Len(optimizers) THEN Pass(ins, regs, stk)
    ELSE IF IsStackOptimizer(optimizers[o]) /\ MatchesRegex(optimizers[o], upper(ins[k][1]))
    THEN CASE optimizers[o] = "PushStackOptimizer" -> PushStackOptimizer(k, ins, regs, stk)
           [] optimizers[o] = "PopStackOptimizer" -> PopStackOptimizer(k, ins, regs, stk)
           [] optimizers[o] = "GeneralStackOptimizer" -> GeneralStackOptimizer(k, ins, regs, stk)
           [] optimizers[o] = "StackVerificationOptimizer" -> StackVerificationOptimizer(k, ins, regs, stk)
    ELSE StackDispatch(o + 1, k, ins, regs, stk)

\* lines 256-267: one optimizer of the list tried at index k
TryPairOrMono(o, k, ins) ==
    IF IsPairOptimizer(o)
    THEN LET nxt == _next(ins, k, get_allow_labels_next(o))
         IN  IF nxt # 0 /\ MatchesRegex(o, upper(ins[k][1])) /\ MatchesRegexNext(o, upper(ins[nxt][1]))
             THEN CASE o = "PushFollowedByPopOptimizer" -> PushFollowedByPopOptimizer(k, nxt, ins)
                    [] o = "RepeatedAddAndSubtractOptimizer" -> RepeatedAddAndSubtractOptimizer(k, nxt, ins)
                    [] o = "OverwrittenResultOptimizer" -> OverwrittenResultOptimizer(k, nxt, ins)
                    [] o = "JumpNextOptimizer" -> JumpNextOptimizer(k, nxt, ins)
             ELSE Kept(ins)
    ELSE IF IsMonoOptimizer(o)
    THEN IF MatchesRegex(o, upper(ins[k][1]))
         THEN CASE o = "VoidMoveOptimizer" -> VoidMoveOptimizer(k, ins)
                [] o = "CommentOptimizer" -> CommentOptimizer(k, ins)
         ELSE Kept(ins)
    ELSE Kept(ins)

\* lines 254-267: the body of the while loop at index k, up to the first rule that fires
RECURSIVE PairDispatch(_, _, _)
PairDispatch(o, k, ins) ==
    IF o > Len(optimizers) THEN Kept(ins)
    ELSE LET r == TryPairOrMono(optimizers[o], k, ins)
         IN  IF r.fired \/ r.err # "" THEN r ELSE PairDispatch(o + 1, k, ins)

\* lines 274-276: one round of the code optimizers
RECURSIVE CodeDispatch(_, _)
CodeDispatch(o, ins) ==
    IF o > Len(optimizers) THEN Kept(ins)
    ELSE IF IsCodeOptimizer(optimizers[o])
    THEN LET r == LabelOptimizer(ins)
             rest == CodeDispatch(o + 1, r.insts)
         IN  [fired |-> r.fired \/ rest.fired, insts |-> rest.insts, err |-> ""]
    ELSE CodeDispatch(o + 1, ins)

\* a variant that compares the mnemonic with "nop" without upper()
RECURSIVE OutputLines_case_sensitive(_)
OutputLines_case_sensitive(ins) ==
    IF Len(ins) = 0 THEN <<>>
    ELSE IF ins[1][1] # t_nop
    THEN <<join(ins[1])>> \o OutputLines_case_sensitive(Tail(ins))
    ELSE OutputLines_case_sensitive(Tail(ins))

\* lines 278-279: the lines commit writes
RECURSIVE OutputLines(_)
OutputLines(ins) ==
    IF Len(ins) = 0 THEN <<>>
    ELSE IF upper(ins[1][1]) # U_NOP
    THEN <<join(ins[1])>> \o OutputLines(Tail(ins))
    ELSE OutputLines(Tail(ins))

-----------------------------------------------------------------------------
(* URCLEmitter: the operations of the emitter contract (src/emitter.py) as   *)
(* the URCL back-end implements them. An emitter is the record of _insts,   *)
(* _current and _internal; a request is the record of the method's name and *)
(* its arguments (n: a number, s: a string, x: a list of strings)           *)

Emitter(ins, cur, int) == [insts |-> ins, current |-> cur, internal |-> int]

Request(op, n, s, x) == [op |-> op, n |-> n, s |-> s, x |-> x]

\* URCLEmitter._emit
_emit(e, inst) == [e EXCEPT !.insts = Append(@, inst)]

t_urcl == <<".","_","_","_","u","r","c","l","_","_","_">>
t_internal == <<"i","n","t","e","r","n","a","l","_","_","_">>

\* URCLEmitter._target for a number
_target_int(n, isInternal) ==
    IF isInternal THEN t_urcl \o t_internal \o str(n) ELSE t_urcl \o str(n)

\* URCLEmitter._target for a name
_target(name) == <<".">> \o name

\* URCLEmitter._lmark
_lmark(e, label) == _emit(e, <<_target_int(label, TRUE)>>)

\* begin_instruction with showIL = False, the value the driver constructs the emitter with
begin_instruction(e) == _emit(e, <<_target_int(e.current, FALSE)>>)

end_instruction(e) == [e EXCEPT !.current = @ + 1]

RECURSIVE EmitAll(_, _)
EmitAll(e, instructions) ==
    IF Len(instructions) = 0 THEN e
    ELSE EmitAll(_emit(e, instructions[1]), Tail(instructions))

\* a method of the shape begin_instruction(); self._emit(...)...; end_instruction()
Bracketed(e, instructions) == end_instruction(EmitAll(begin_instruction(e), instructions))

\* add, sub, mul_u, div_u, rem_u, bit_and, bit_or, bit_xor, lsh, rsh
BinaryMnemonic(op) ==
    CASE op = "add" -> t_add
      [] op = "sub" -> t_sub
      [] op = "mul_u" -> t_mlt
      [] op = "div_u" -> t_div
      [] op = "rem_u" -> t_mod
      [] op = "bit_and" -> t_and
      [] op = "bit_or" -> t_or
      [] op = "bit_xor" -> t_xor
      [] op = "lsh" -> t_bsl
      [] op = "rsh" -> t_bsr

BinaryMethods ==
    {"add", "sub", "mul_u", "div_u", "rem_u", "bit_and", "bit_or", "bit_xor", "lsh", "rsh"}

binary(e, mnemonic) ==
    Bracketed(e, << <<t_pop, t_R2>>, <<t_pop, t_R1>>,
                    <<mnemonic, t_R1, t_R1, t_R2>>, <<t_psh, t_R1>> >>)

\* cmp_eq, cmp_ne, cmp_lt_u, cmp_gt_u, cmp_le_u, cmp_ge_u and
\* br_eq, br_ne, br_lt_u, br_gt_u, br_le_u, br_ge_u
BranchMnemonic(op) ==
    CASE op \in {"cmp_eq", "br_eq"} -> t_bre
      [] op \in {"cmp_ne", "br_ne"} -> t_bne
      [] op \in {"cmp_lt_u", "br_lt_u"} -> t_brl
      [] op \in {"cmp_gt_u", "br_gt_u"} -> t_brg
      [] op \in {"cmp_le_u", "br_le_u"} -> t_ble
      [] op \in {"cmp_ge_u", "br_ge_u"} -> t_bge

CompareMethods == {"cmp_eq", "cmp_ne", "cmp_lt_u", "cmp_gt_u", "cmp_le_u", "cmp_ge_u"}
BranchMethods == {"br_eq", "br_ne", "br_lt_u", "br_gt_u", "br_le_u", "br_ge_u"}

compare(e, mnemonic) ==
    LET end == e.internal
        true == e.internal + 1
        e1 == [begin_instruction(e) EXCEPT !.internal = @ + 2]
        e2 == EmitAll(e1, << <<t_pop, t_R2>>, <<t_pop, t_R1>>,
                             <<mnemonic, _target_int(true, TRUE), t_R1, t_R2>>,
                             <<t_psh, <<"0">> >>,
                             <<t_jmp, _target_int(end, TRUE)>> >>)
        e3 == _emit(_lmark(e2, true), <<t_psh, <<"1">> >>)
    IN  end_instruction(_lmark(e3, end))

branch(e, mnemonic, target) ==
    Bracketed(e, << <<t_pop, t_R2>>, <<t_pop, t_R1>>,
                    <<mnemonic, _target(target), t_R1, t_R2>> >>)

\* a variant in which div_s does not raise
UnimplementedMethods_without_div_s ==
    {"rem_s", "cmp_lt_s", "cmp_gt_s", "cmp_le_s", "cmp_ge_s",
     "br_lt_s", "br_gt_s", "br_le_s", "br_ge_s"}

\* the methods that raise NotImplementedError
UnimplementedMethods ==
    {"div_s", "rem_s", "cmp_lt_s", "cmp_gt_s", "cmp_le_s", "cmp_ge_s",
     "br_lt_s", "br_gt_s", "br_le_s", "br_ge_s"}

\* the instructions ld_ptr(size) emits after its label
RECURSIVE LoadWords(_, _)
LoadWords(k, size) ==
    IF k >= size THEN <<>>
    ELSE (IF k # 0 THEN << <<t_sub, t_R1, t_R1, <<"1">> >> >> ELSE <<>>)
         \o << <<t_lod, t_R2, t_R1>>, <<t_psh, t_R2>> >>
         \o LoadWords(k + 1, size)

\* a variant that starts at the first word instead of the last
ld_ptr_from_first_word(e, size) ==
    Bracketed(e,
        IF size > 0
        THEN << <<t_pop, t_R1>> >> \o
             (IF size = 1
              THEN << <<t_lod, t_R1, t_R1>>, <<t_psh, t_R1>> >>
              ELSE LoadWords(0, size))
        ELSE <<>>)

ld_ptr(e, size) ==
    Bracketed(e,
        IF size > 0
        THEN << <<t_pop, t_R1>> >> \o
             (IF size = 1
              THEN << <<t_lod, t_R1, t_R1>>, <<t_psh, t_R1>> >>
              ELSE << <<t_add, t_R1, t_R1, str(size - 1)>> >> \o LoadWords(0, size))
        ELSE <<>>)

\* the instructions st_ptr(size) emits after its label
RECURSIVE StoreWords(_, _)
StoreWords(k, size) ==
    IF k >= size THEN <<>>
    ELSE (IF k # 0 THEN << <<t_add, t_R1, t_R1, <<"1">> >> >> ELSE <<>>)
         \o << <<t_pop, t_R2>>, <<t_str, t_R1, t_R2>> >>
         \o StoreWords(k + 1, size)

st_ptr(e, size) ==
    Bracketed(e, IF size > 0 THEN << <<t_pop, t_R1>> >> \o StoreWords(0, size) ELSE <<>>)

\* str.split(" ")
RECURSIVE split(_)
split(text) ==
    LET word == FirstWord(text)
    IN  IF Len(word) = Len(text) THEN <<word>>
        ELSE <<word>> \o split(SubSeq(text, Len(word) + 2, Len(text)))

\* URCLEmitter.comment
comment(e, text) ==
    LET parts == split(text)
    IN  _emit(e, <<(<<"/","/">> \o parts[1])>> \o Tail(parts))

\* Emitter.mark_label with URCLEmitter._emit_label: the label's address is set
\* and, when the name is not empty, the label line is written
mark_label(e, name) == IF Len(name) > 0 THEN _emit(e, <<_target(name)>>) ELSE e

\* one request served: the emitter it leaves
Serve(e, r) ==
    CASE r.op = "emit_raw" -> Bracketed(e, <<(<<r.s>> \o r.x)>>)
      [] r.op = "comment" -> comment(e, r.s)
      [] r.op = "push" -> Bracketed(e, << <<t_psh, str(r.n)>> >>)
      [] r.op = "pop" -> Bracketed(e, << <<t_pop, t_R0>> >>)
      [] r.op \in BinaryMethods -> binary(e, BinaryMnemonic(r.op))
      [] r.op = "mul_s" -> binary(e, BinaryMnemonic("mul_u"))
      [] r.op = "bit_not" ->
            Bracketed(e, << <<t_pop, t_R1>>, <<t_not, t_R1, t_R1>>, <<t_psh, t_R1>> >>)
      [] r.op \in CompareMethods -> compare(e, BranchMnemonic(r.op))
      [] r.op = "call" -> Bracketed(e, << <<t_cal, _target(r.s)>> >>)
      [] r.op = "ret" -> Bracketed(e, << <<t_ret>> >>)
      [] r.op = "jmp" -> Bracketed(e, << <<t_jmp, _target(r.s)>> >>)
      [] r.op = "br_t" -> Bracketed(e, << <<t_pop, t_R1>>, <<t_brz, _target(r.s), t_R1>> >>)
      [] r.op = "br_f" -> Bracketed(e, << <<t_pop, t_R1>>, <<t_bnz, _target(r.s), t_R1>> >>)
      [] r.op \in BranchMethods -> branch(e, BranchMnemonic(r.op), r.s)
      [] r.op = "add_sp" -> Bracketed(e, << <<t_sub, t_SP, t_SP, str(r.n)>> >>)
      [] r.op = "rem_sp" -> Bracketed(e, << <<t_add, t_SP, t_SP, str(r.n)>> >>)
      [] r.op = "ld_sp" -> Bracketed(e, << <<t_psh, t_SP>> >>)
      [] r.op = "st_sp" -> Bracketed(e, << <<t_pop, t_SP>> >>)
      [] r.op = "ld_bp" -> Bracketed(e, << <<t_psh, t_R3>> >>)
      [] r.op = "st_bp" -> Bracketed(e, << <<t_pop, t_R3>> >>)
      [] r.op = "ld_ptr" -> ld_ptr(e, r.n)
      [] r.op = "st_ptr" -> st_ptr(e, r.n)
      [] r.op = "ld_global" -> Bracketed(e, << <<t_psh, <<"R">> \o str(r.n + 4)>> >>)
      [] r.op = "st_global" -> Bracketed(e, << <<t_pop, <<"R">> \o str(r.n + 4)>> >>)
      [] r.op = "mark_label" -> mark_label(e, r.s)
      [] OTHER -> e

\* whether the request raises, and what
Raises(r) == IF r.op \in UnimplementedMethods THEN "NotImplementedError" ELSE ""

-----------------------------------------------------------------------------
(* URCLEmitter.commit, one action for the entry and one for each loop body *)

\* where the run is once the stack pass, the pair loop have reached index k
AfterStackPass(ins, k) ==
    IF k <= Len(ins) THEN "stack" ELSE IF Len(ins) >= 1 THEN "pair" ELSE "code"
AfterPairLoop(ins, k) == IF k <= Len(ins) THEN "pair" ELSE "code"

\* lines 232-243: commit is entered
\* a variant of the entry of commit that writes the buffer before the passes
Commit_writing_first ==
    /\ pc = "emit"
    /\ lastOp' = "commit"
    /\ i' = 1
    /\ stack' = <<>>
    /\ registers' = InitialRegisters
    /\ pc' = IF optimize THEN AfterStackPass(insts, 1) ELSE "write"
    /\ input' = insts
    /\ stream' = stream \o OutputLines(insts)
    /\ UNCHANGED <<insts, current, internal, optimize, err, calls, ir>>

Commit ==
    /\ pc = "emit"
    /\ lastOp' = "commit"
    /\ i' = 1
    /\ stack' = <<>>
    /\ registers' = InitialRegisters
    /\ pc' = IF optimize THEN AfterStackPass(insts, 1) ELSE "write"
    /\ input' = insts
    /\ UNCHANGED <<insts, current, internal, optimize, stream, err, calls, ir>>

\* lines 245-249: the stack pass at instruction i
StackStep ==
    /\ pc = "stack"
    /\ LET r == StackDispatch(1, i, insts, registers, stack)
       IN  /\ insts' = r.insts
           /\ registers' = r.registers
           /\ stack' = r.stack
           /\ err' = r.err
           /\ IF r.err # ""
              THEN pc' = "fatal" /\ i' = i
              ELSE /\ pc' = AfterStackPass(r.insts, i + 1)
                   /\ i' = IF i + 1 <= Len(r.insts) THEN i + 1 ELSE 1
    /\ UNCHANGED <<current, internal, optimize, stream, lastOp, calls, input, ir>>

\* lines 253-269: one turn of the pair and mono loop at instruction i
PairStep ==
    /\ pc = "pair"
    /\ LET r == PairDispatch(1, i, insts)
           k == IF r.fired THEN 1 ELSE i + 1
       IN  /\ insts' = r.insts
           /\ err' = r.err
           /\ IF r.err # ""
              THEN pc' = "fatal" /\ i' = i
              ELSE pc' = AfterPairLoop(r.insts, k) /\ i' = k
    /\ UNCHANGED <<current, internal, optimize, registers, stack, stream, lastOp, calls, input, ir>>

\* lines 271-276: one turn of the code optimizer loop
CodeStep ==
    /\ pc = "code"
    /\ LET r == CodeDispatch(1, insts)
       IN  /\ insts' = r.insts
           /\ pc' = IF r.fired THEN "code" ELSE "write"
    /\ UNCHANGED <<current, internal, optimize, registers, stack, i, stream, err, lastOp, calls, input, ir>>

\* lines 278-279: the buffer is written
Write ==
    /\ pc = "write"
    /\ stream' = stream \o OutputLines(insts)
    /\ pc' = "done"
    /\ UNCHANGED <<insts, current, internal, optimize, registers, stack, i, err, lastOp, calls, input, ir>>

CommitNext == Commit \/ StackStep \/ PairStep \/ CodeStep \/ Write

-----------------------------------------------------------------------------
(* commit as a function of the buffer: the buffer is drawn from the lists of *)
(* at most MaxLen raw instructions                                           *)

MaxLen == 3

t_3 == <<"3">>
t_1 == <<"1">>
t_L == <<".","_","_","_","L">>
t_f == <<".","f">>
\* the label of the return of a callable F (src/compiler.py, line 610)
t_F_return == <<".","_","_","F","_","_","r","e","t","u","r","n">>

RawInstructions ==
    { <<t_psh, t_3>>, <<t_psh, t_R1>>, <<t_pop, t_R1>>, <<t_pop, t_R2>>,
      <<t_ret>>, <<t_nop>>, <<U_NOP>>,
      <<t_add, t_R1, t_R1, t_1>>, <<t_sub, t_R1, t_R1, t_1>>,
      <<t_mov, t_R2, t_R1>>, <<t_mov, t_R0, t_R1>>,
      <<t_jmp, t_L>>, <<t_L>>, <<t_cal, t_f>>, <<t_f>>, <<t_F_return>> }

InstructionLists == UNION {[1..n -> RawInstructions] : n \in 0..MaxLen}

\* a constant pushed, popped into Ra, pushed again from Ra and popped into Rb
t_R4 == <<"R","4">>
S7Constants == {<<"0">>, t_3, <<"1","2">>}
S7Registers == {t_R1, t_R2, t_R4}
S7List(c, Ra, Rb) == << <<t_psh, c>>, <<t_pop, Ra>>, <<t_psh, Ra>>, <<t_pop, Rb>> >>
S7Lists ==
    UNION { { S7List(c, Ra, Rb) : Rb \in S7Registers \ {Ra} } :
                c \in S7Constants, Ra \in S7Registers }

NoIR == [phase |-> "none"]

InitCommit ==
    /\ insts \in InstructionLists \cup S7Lists
    /\ current = 0
    /\ internal = 0
    /\ optimize \in BOOLEAN
    /\ registers = EmptyRegisters
    /\ stack = <<>>
    /\ i = 1
    /\ stream = <<>>
    /\ pc = "emit"
    /\ err = ""
    /\ lastOp = ""
    /\ calls = 0
    /\ input = <<>>
    /\ ir = NoIR

SpecCommit == InitCommit /\ [][CommitNext]_vars

-----------------------------------------------------------------------------
(* commit on buffers that move the stack pointer: the buffer is drawn from  *)
(* the lists of at most MaxMoves instructions that push, call, return or    *)
(* write SP                                                                 *)

MaxMoves == 3

t_2 == <<"2">>
t_0 == <<"0">>

StackPointerInstructions ==
    { <<t_psh, t_R1>>, <<t_ret>>, <<t_cal, t_f>>,
      <<t_add, t_SP, t_SP, t_1>>, <<t_add, t_SP, t_SP, t_2>>,
      <<t_sub, t_SP, t_SP, t_1>>, <<t_sub, t_SP, t_SP, t_2>>,
      <<t_sub, t_SP, t_R3, t_0>>, <<t_sub, t_SP, t_R3, t_1>>,
      <<t_add, t_SP, t_R3, t_1>>, <<t_mov, t_SP, t_R1>> }

StackPointerLists == UNION {[1..n -> StackPointerInstructions] : n \in 1..MaxMoves}

InitStackPointer ==
    /\ insts \in StackPointerLists
    /\ current = 0
    /\ internal = 0
    /\ optimize = TRUE
    /\ registers = EmptyRegisters
    /\ stack = <<>>
    /\ i = 1
    /\ stream = <<>>
    /\ pc = "emit"
    /\ err = ""
    /\ lastOp = ""
    /\ calls = 0
    /\ input = <<>>
    /\ ir = NoIR

SpecStackPointer == InitStackPointer /\ [][CommitNext]_vars

-----------------------------------------------------------------------------
(* commit on the pairs of the pair rules: the buffer is drawn from the      *)
(* lists of at most MaxPair instructions that add, subtract, move, branch,  *)
(* jump, call, push or store                                                *)

MaxPair == 2

t_comment == <<"/","/","c">>

AddSubInstructions ==
    { <<mnemonic, d, s, k>> :
        mnemonic \in {t_add, t_sub},
        d \in {t_R1, t_R2}, s \in {t_R1, t_R2},
        k \in {t_1, t_2, t_R2} }

OtherInstructions ==
    { <<t_mov, t_R1, t_R2>>, <<t_mov, t_R1, t_3>>,
      <<t_bre, t_f, t_R1, t_R2>>, <<t_bne, t_f, t_R1, t_R2>>,
      <<t_brl, t_f, t_R1, t_R2>>, <<t_brg, t_f, t_R1, t_R2>>,
      <<t_ble, t_f, t_R1, t_R2>>, <<t_bge, t_f, t_R1, t_R2>>,
      <<t_brz, t_f, t_R1>>, <<t_brz, t_f, t_R2>>,
      <<t_bnz, t_f, t_R1>>, <<t_bnz, t_f, t_R2>>,
      <<t_jmp, t_f>>, <<t_cal, t_f>>, <<t_psh, t_R1>>, <<t_str, t_R1, t_R2>>,
      <<t_f>>, <<t_comment>> }

PairLists ==
    UNION {[1..n -> AddSubInstructions \cup OtherInstructions] : n \in 1..MaxPair}

InitPairs ==
    /\ insts \in PairLists
    /\ current = 0
    /\ internal = 0
    /\ optimize = TRUE
    /\ registers = EmptyRegisters
    /\ stack = <<>>
    /\ i = 1
    /\ stream = <<>>
    /\ pc = "emit"
    /\ err = ""
    /\ lastOp = ""
    /\ calls = 0
    /\ input = <<>>
    /\ ir = NoIR

SpecPairs == InitPairs /\ [][CommitNext]_vars

-----------------------------------------------------------------------------
(* The emitter in use: up to MaxOps operations are requested of a fresh     *)
(* URCLEmitter, then commit is called                                       *)

MaxOps == 2

t_name == <<"f">>

\* one request: the method is run on the emitter, or raises and ends the run
Requested(r) ==
    /\ pc = "emit"
    /\ calls < MaxOps
    /\ calls' = calls + 1
    /\ lastOp' = r.op
    /\ LET e == Serve(Emitter(insts, current, internal), r)
       IN  IF Raises(r) # ""
           THEN /\ pc' = "fatal"
                /\ err' = Raises(r)
                /\ UNCHANGED <<insts, current, internal>>
           ELSE /\ insts' = e.insts
                /\ current' = e.current
                /\ internal' = e.internal
                /\ UNCHANGED <<pc, err>>
    /\ UNCHANGED <<optimize, registers, stack, i, stream, input, ir>>

RawRequests ==
    { Request("emit_raw", 0, t_nop, <<>>), Request("emit_raw", 0, U_NOP, <<>>),
      Request("emit_raw", 0, t_mov, <<t_R1, t_R2>>) }

EmitRaw == \E r \in RawRequests : Requested(r)
Comment == Requested(Request("comment", 0, <<"a"," ","b">>, <<>>))
Push == \E n \in {0, 3} : Requested(Request("push", n, <<>>, <<>>))
Pop == Requested(Request("pop", 0, <<>>, <<>>))
Arithmetic == \E op \in {"add", "mul_u", "mul_s"} : Requested(Request(op, 0, <<>>, <<>>))
BitNot == Requested(Request("bit_not", 0, <<>>, <<>>))
Compare == \E op \in CompareMethods : Requested(Request(op, 0, <<>>, <<>>))
Call == Requested(Request("call", 0, t_name, <<>>))
Ret == Requested(Request("ret", 0, <<>>, <<>>))
Jmp == Requested(Request("jmp", 0, t_name, <<>>))
BranchBool == \E op \in {"br_t", "br_f"} : Requested(Request(op, 0, t_name, <<>>))
Branch == \E op \in {"br_eq", "br_ge_u"} : Requested(Request(op, 0, t_name, <<>>))
MoveSp == \E op \in {"add_sp", "rem_sp"} : Requested(Request(op, 1, <<>>, <<>>))
LoadStoreSp == \E op \in {"ld_sp", "st_sp", "ld_bp", "st_bp"} : Requested(Request(op, 0, <<>>, <<>>))
LoadStorePtr == \E op \in {"ld_ptr", "st_ptr"} : \E size \in 1..2 : Requested(Request(op, size, <<>>, <<>>))
LoadStoreGlobal == \E op \in {"ld_global", "st_global"} : Requested(Request(op, 0, <<>>, <<>>))
\* the names of the labels marked: a callable's name, and a name spelled as
\* the labels of begin_instruction are
LabelNames == {t_name, Tail(_target_int(0, FALSE))}
MarkLabel == \E name \in LabelNames : Requested(Request("mark_label", 0, name, <<>>))
\* the signed divide, remainder, comparisons and branches of src/emitter.py
SignedOperations ==
    {"div_s", "rem_s", "cmp_lt_s", "cmp_gt_s", "cmp_le_s", "cmp_ge_s",
     "br_lt_s", "br_gt_s", "br_le_s", "br_ge_s"}
Unimplemented == \E op \in SignedOperations : Requested(Request(op, 0, t_name, <<>>))

EmitterNext ==
    \/ EmitRaw \/ Comment \/ Push \/ Pop \/ Arithmetic \/ BitNot \/ Compare
    \/ Call \/ Ret \/ Jmp \/ BranchBool \/ Branch \/ MoveSp \/ LoadStoreSp
    \/ LoadStorePtr \/ LoadStoreGlobal \/ MarkLabel \/ Unimplemented

Init ==
    /\ insts = <<>>
    /\ current = 0
    /\ internal = 0
    /\ optimize \in BOOLEAN
    /\ registers = EmptyRegisters
    /\ stack = <<>>
    /\ i = 1
    /\ stream = <<>>
    /\ pc = "emit"
    /\ err = ""
    /\ lastOp = ""
    /\ calls = 0
    /\ input = <<>>
    /\ ir = NoIR

Next == EmitterNext \/ CommitNext

Spec == Init /\ [][Next]_vars

-----------------------------------------------------------------------------
(* src/compiler.py: types. A type name is a string, a Type object a record;  *)
(* a module is the record of its name, its structures (types) and its       *)
(* callables (code). The ComplexType object of a module's decl-th structure *)
(* is identified by decl; its fields are read from the module               *)

t_Integer == <<"I","n","t","e","g","e","r">>
t_UInteger == <<"U">> \o t_Integer
t_star == <<"*">>

SignedInteger == [kind |-> "SignedInteger"]
UnsignedInteger == [kind |-> "UnsignedInteger"]
VoidType == [kind |-> "EmptyType"]
PointerType(referenced) == [kind |-> "PointerType", referenced |-> referenced]
ComplexType(name, decl) == [kind |-> "ComplexType", name |-> name, decl |-> decl]

\* Type.GetName, PointerType.GetName
RECURSIVE GetName(_)
GetName(type) ==
    CASE type.kind = "SignedInteger" -> t_Integer
      [] type.kind = "UnsignedInteger" -> t_UInteger
      [] type.kind = "EmptyType" -> <<"V","o","i","d">>
      [] type.kind = "PointerType" -> GetName(type.referenced) \o t_star
      [] type.kind = "ComplexType" -> type.name

\* a comparison of types that looks at the kind alone, every pointer then
\* being equal to every pointer
TypeEq_by_kind(a, b) == a.kind = b.kind

\* __eq__ of PointerType, SignedInteger and UnsignedInteger; the other types
\* define none, and two of them are equal when they are the same object
RECURSIVE TypeEq(_, _)
TypeEq(a, b) ==
    CASE a.kind = "PointerType" ->
            b.kind = "PointerType" /\ TypeEq(a.referenced, b.referenced)
      [] a.kind = "SignedInteger" -> b.kind = "SignedInteger"
      [] a.kind = "UnsignedInteger" -> b.kind = "UnsignedInteger"
      [] OTHER -> a = b

\* gb.py: defaultTypes
defaultTypes == <<SignedInteger, UnsignedInteger>>

\* Module.GetResolver: the resolver's list of types
ResolverTypes(m) ==
    [k \in 1..Len(m.types) |-> ComplexType(m.types[k].name, k)] \o defaultTypes

\* Resolver.GetType (Resolver.Resolve of a type name)
RECURSIVE GetType(_, _)
GetType(types, name) ==
    IF endswith(name, t_star)
    THEN LET r == GetType(types, SubSeq(name, 1, Len(name) - 1))
         IN  IF r.ok THEN Ok(PointerType(r.v)) ELSE r
    ELSE LET found == {k \in 1..Len(types) : GetName(types[k]) = name}
         IN  IF found = {} THEN Raise("Exception: Undefined type")
             ELSE Ok(types[CHOOSE k \in found : \A j \in found : k <= j])

\* Field.GetType of a field of module m once Field.Resolve has run
FieldType(m, field) == GetType(ResolverTypes(m), field.type)

\* Type.GetSize. open holds the structures whose GetSize is running: when one
\* of them is reached again Python's recursion goes on to RecursionError
RECURSIVE GetSize(_, _, _)
RECURSIVE SumOfSizes(_, _, _, _)
RECURSIVE FieldSize(_, _, _)
GetSize(type, m, open) ==
    CASE type.kind = "EmptyType" -> Ok(0)
      [] type.kind = "ComplexType" ->
            IF type.decl \in open THEN Raise("RecursionError")
            ELSE SumOfSizes(m.types[type.decl].fields, Len(m.types[type.decl].fields),
                            m, open \cup {type.decl})
      [] OTHER -> Ok(1)

\* the sum of the sizes of the first n of fields, as the loops of
\* ComplexType add them up
SumOfSizes(fields, n, m, open) ==
    IF n = 0 THEN Ok(0)
    ELSE Bind(SumOfSizes(fields, n - 1, m, open), LAMBDA before :
         Bind(FieldSize(m, fields[n], open), LAMBDA size : Ok(before + size)))

\* field.GetType().GetSize(): a type that is still a name has no GetSize
FieldSize(m, field, open) ==
    LET Sized(type) == IF type.ok THEN GetSize(type.v, m, open) ELSE Raise("AttributeError")
    IN  Sized(FieldType(m, field))

\* a name that is no variable: Python's None
NoVariable == [kind |-> "None"]

\* the Field ComplexType.GetField builds
Field(relativeTo, type, name, index, offset) ==
    [kind |-> "Field", relativeTo |-> relativeTo, type |-> type, name |-> name,
     index |-> index, offset |-> offset]

\* the position of the first field called name, 0 when there is none
FirstNamed(fields, name) ==
    LET found == {k \in 1..Len(fields) : fields[k].name = name}
    IN  IF found = {} THEN 0 ELSE CHOOSE k \in found : \A j \in found : k <= j

\* ComplexType.GetField(nameOrIndex, relativeTo) for an index (counted from 0)
GetFieldByIndex(type, m, index, relativeTo) ==
    LET fields == m.types[type.decl].fields
    IN  Bind(SumOfSizes(fields, IF index < Len(fields) THEN index ELSE Len(fields), m, {}),
             LAMBDA offset :
                IF index >= Len(fields) THEN Raise("IndexError")
                ELSE Ok(Field(relativeTo, FieldType(m, fields[index + 1]).v,
                              fields[index + 1].name, fields[index + 1].index, offset)))

\* the field at position k (0: there is none) once the sizes before it are
\* summed to offset
FieldAt(m, fields, k, relativeTo, offset) ==
    IF k = 0 THEN NoVariable
    ELSE Field(relativeTo, FieldType(m, fields[k]).v, fields[k].name, fields[k].index, offset)

\* ComplexType.GetField(nameOrIndex, relativeTo) for a name: None when no
\* field has it
GetFieldByName(type, m, name, relativeTo) ==
    LET fields == m.types[type.decl].fields
        Found(k) ==
            Bind(SumOfSizes(fields, IF k = 0 THEN Len(fields) ELSE k - 1, m, {}),
                 LAMBDA offset : Ok(FieldAt(m, fields, k, relativeTo, offset)))
    IN  Found(FirstNamed(fields, name))

\* ComplexType.GetFieldOffset: -1 stands for None
GetFieldOffset(type, m, name) ==
    LET fields == m.types[type.decl].fields
        Found(k) ==
            Bind(SumOfSizes(fields, IF k = 0 THEN Len(fields) ELSE k - 1, m, {}),
                 LAMBDA offset : Ok(IF k = 0 THEN -1 ELSE offset))
    IN  Found(FirstNamed(fields, name))

-----------------------------------------------------------------------------
(* The structures of one module: Module.Resolve resolves them, then their   *)
(* sizes, fields and field offsets are asked for                            *)

MaxFields == 2

t_S == <<"S">>
t_T == <<"T">>
t_a == <<"a">>
t_b == <<"b">>

StructureNames == <<t_S, t_T>>
FieldNames == {t_a, t_b}
FieldTypeNames == {t_Integer, t_S, t_T}

\* parse_field, parse_struct: the fields of a structure, numbered from 0
FieldLists ==
    UNION { { [k \in 1..n |-> [name |-> names[k], type |-> types[k], index |-> k - 1]] :
                names \in [1..n -> FieldNames], types \in [1..n -> FieldTypeNames] } :
            n \in 0..MaxFields }

\* parse_module: a module of structures alone
Module(name, types, code) == [name |-> name, types |-> types, code |-> code]

StructureModules ==
    UNION { { Module(<<"m">>, [k \in 1..n |-> [name |-> StructureNames[k], fields |-> fields[k]]], <<>>) :
                fields \in [1..n -> FieldLists] } :
            n \in 1..Len(StructureNames) }

\* ComplexType.Resolve for every structure of m: the first exception, or ""
ResolveTypes(m) ==
    LET bad == { <<k, j>> \in (1..Len(m.types)) \X (1..MaxFields + 1) :
                    j <= Len(m.types[k].fields) /\ ~FieldType(m, m.types[k].fields[j]).ok }
    IN  IF bad = {} THEN "" ELSE "Exception: Undefined type"

NoQuery == [op |-> "", decl |-> 0, name |-> <<>>, index |-> 0]

InitTypes ==
    /\ ir \in { [modules |-> <<m>>, query |-> NoQuery, result |-> Ok(0)] : m \in StructureModules }
    /\ pc = "resolve"
    /\ insts = <<>>
    /\ current = 0
    /\ internal = 0
    /\ optimize = TRUE
    /\ registers = EmptyRegisters
    /\ stack = <<>>
    /\ i = 1
    /\ stream = <<>>
    /\ err = ""
    /\ lastOp = ""
    /\ calls = 0
    /\ input = <<>>

\* Module.Resolve (lines 727-728) on a module without callables
ResolveStructures ==
    /\ pc = "resolve"
    /\ err' = ResolveTypes(ir.modules[1])
    /\ pc' = IF err' = "" THEN "resolved" ELSE "fatal"
    /\ lastOp' = "Resolve"
    /\ UNCHANGED <<insts, current, internal, optimize, registers, stack, i, stream, calls, input, ir>>

\* one of ComplexType's methods is called on a resolved structure
Asked(q, result) ==
    /\ pc = "resolved"
    /\ pc' = "asked"
    /\ ir' = [ir EXCEPT !.query = q, !.result = result]
    /\ lastOp' = q.op
    /\ UNCHANGED <<insts, current, internal, optimize, registers, stack, i, stream, err, calls, input>>

TypeOf(decl) == ResolverTypes(ir.modules[1])[decl]

AskGetSize ==
    \E decl \in 1..Len(ir.modules[1].types) :
        Asked([op |-> "GetSize", decl |-> decl, name |-> <<>>, index |-> 0],
              GetSize(TypeOf(decl), ir.modules[1], {}))

AskGetFieldByIndex ==
    \E decl \in 1..Len(ir.modules[1].types) : \E index \in 0..MaxFields :
        Asked([op |-> "GetFieldByIndex", decl |-> decl, name |-> <<>>, index |-> index],
              GetFieldByIndex(TypeOf(decl), ir.modules[1], index, NoVariable))

AskGetFieldByName ==
    \E decl \in 1..Len(ir.modules[1].types) : \E name \in FieldNames :
        Asked([op |-> "GetFieldByName", decl |-> decl, name |-> name, index |-> 0],
              GetFieldByName(TypeOf(decl), ir.modules[1], name, NoVariable))

AskGetFieldOffset ==
    \E decl \in 1..Len(ir.modules[1].types) : \E name \in FieldNames :
        Asked([op |-> "GetFieldOffset", decl |-> decl, name |-> name, index |-> 0],
              GetFieldOffset(TypeOf(decl), ir.modules[1], name))

TypesNext ==
    \/ ResolveStructures
    \/ AskGetSize \/ AskGetFieldByIndex \/ AskGetFieldByName \/ AskGetFieldOffset

SpecTypes == InitTypes /\ [][TypesNext]_vars

-----------------------------------------------------------------------------
(* src/compiler.py: the variables of a callable. A callable is the record   *)
(* of its kind, name, parameters (args), return type and body; what its     *)
(* lowering asks of the emitter is a sequence of requests, cut short by an  *)
(* exception                                                                *)

Parameter(type, isByReference, name, index) ==
    [kind |-> "Parameter", type |-> type, ref |-> isByReference, name |-> name, index |-> index]

\* a Local, with the place it has among the locals of its callable
Local(type, name, initial, index) ==
    [kind |-> "Local", type |-> type, name |-> name, initial |-> initial, index |-> index]

ReturnVariable(type) == [kind |-> "ReturnVariable", type |-> type]

\* str.split(sep): the part before the first sep, then the parts after it
RECURSIVE PartBefore(_, _)
PartBefore(text, sep) ==
    IF Len(text) = 0 \/ text[1] = sep THEN <<>>
    ELSE <<text[1]>> \o PartBefore(Tail(text), sep)

RECURSIVE splitAt(_, _)
splitAt(text, sep) ==
    LET part == PartBefore(text, sep)
    IN  IF Len(part) = Len(text) THEN <<part>>
        ELSE <<part>> \o splitAt(SubSeq(text, Len(part) + 2, Len(text)), sep)

\* SubRoutine/Function: GetArgumentCount, GetArgument, GetLocalCount, GetLocal
GetArgumentCount(c) == Len(c.args)
GetArgument(c, index) == c.args[index + 1]

RECURSIVE LocalsOf(_)
LocalsOf(body) ==
    IF Len(body) = 0 THEN <<>>
    ELSE (IF body[1].kind = "Local" THEN <<body[1].local>> ELSE <<>>) \o LocalsOf(Tail(body))

GetLocalCount(c) == IF c.kind = "InlineBody" THEN 0 ELSE Len(LocalsOf(c.body))
GetLocal(c, index) ==
    LET local == LocalsOf(c.body)[index + 1]
    IN  Local(local.type, local.name, local.initial, index)

IsByReference(var) == var.kind = "Parameter" /\ var.ref

\* Parameter.Resolve: a parameter passed by reference has a pointer for type
ByReference(var, type) == IF IsByReference(var) THEN PointerType(type) ELSE type

\* Variable.GetType once the variable is resolved
GetVariableType(m, var) ==
    IF var.kind \in {"Parameter", "Local"}
    THEN ByReference(var, GetType(ResolverTypes(m), var.type).v)
    ELSE var.type

\* Variable.GetSize
GetVariableSize(m, var) == GetSize(GetVariableType(m, var), m, {})

\* Variable.GetVariable, line 99: the type the path goes into
Dereferenced(var, type) ==
    IF IsByReference(var) /\ type.kind = "PointerType" THEN type.referenced ELSE type

\* Variable.GetVariable for the path parts; the locals from place known on
\* still have the name of their type for type
RECURSIVE VariableGetVariable(_, _, _, _)
VariableGetVariable(var, m, parts, known) ==
    LET Found(k, fields, type) ==
            Bind(GetFieldByIndex(type, m, (IF k = 0 THEN Len(fields) ELSE k) - 1, var),
                 LAMBDA field :
                    IF k = 0 THEN Raise("Exception: Undefined variable")
                    ELSE IF Len(parts) = 1 THEN Ok(field)
                    ELSE VariableGetVariable(field, m, Tail(parts), known))
        Into(type) ==
            IF type.kind # "ComplexType" \/ Len(m.types[type.decl].fields) = 0
            THEN Raise("Exception: Undefined variable")
            ELSE Found(FirstNamed(m.types[type.decl].fields, parts[1]),
                       m.types[type.decl].fields, type)
    IN  IF var.kind = "Local" /\ var.index >= known
        THEN Raise("Exception: Type is not resolved.")
        ELSE Into(Dereferenced(var, GetVariableType(m, var)))

\* the place of the first local, the first parameter called name, -1 when
\* there is none
FirstLocal(c, name) ==
    LET found == {k \in 0..GetLocalCount(c) - 1 : LocalsOf(c.body)[k + 1].name = name}
    IN  IF found = {} THEN -1 ELSE CHOOSE k \in found : \A j \in found : k <= j
FirstArgument(c, name) ==
    LET found == {k \in 0..GetArgumentCount(c) - 1 : c.args[k + 1].name = name}
    IN  IF found = {} THEN -1 ELSE CHOOSE k \in found : \A j \in found : k <= j

\* Callable.GetVariable (lines 584-595): the local, else the parameter, the
\* path starts with; None when it starts with neither
CallableGetVariable(c, m, name, known) ==
    LET Rooted(root, parts) ==
            IF root = NoVariable \/ Len(parts) = 1 THEN Ok(root)
            ELSE VariableGetVariable(root, m, Tail(parts), known)
        Start(local, arg, parts) ==
            Rooted(IF local >= 0 THEN GetLocal(c, local)
                   ELSE IF arg >= 0 THEN GetArgument(c, arg) ELSE NoVariable, parts)
        Path(parts) == Start(FirstLocal(c, parts[1]), FirstArgument(c, parts[1]), parts)
    IN  Path(splitAt(name, "."))

\* what a lowering step asks of the emitter
Emitted(requests) == [requests |-> requests, exc |-> ""]
Thrown(exc) == [requests |-> <<>>, exc |-> exc]
Then(a, b) ==
    IF a.exc # "" THEN a ELSE [requests |-> a.requests \o b.requests, exc |-> b.exc]

\* the result of a call handed on to a lowering step
WithValue(r, F(_)) == IF r.ok THEN F(r.v) ELSE Thrown(r.exc)

Op(op) == Request(op, 0, <<>>, <<>>)
OpN(op, n) == Request(op, n, <<>>, <<>>)
OpS(op, name) == Request(op, 0, name, <<>>)

\* a sum in which every parameter counts one word
ArgumentsSize_counting_words(c, m, from, to) == Ok(IF from > to THEN 0 ELSE to - from + 1)

\* the sum of GetType().GetSize() over the parameters at places from..to,
\* added up from the last
RECURSIVE ArgumentsSize(_, _, _, _)
ArgumentsSize(c, m, from, to) ==
    IF from > to THEN Ok(0)
    ELSE Bind(GetVariableSize(m, GetArgument(c, to)), LAMBDA size :
         Bind(ArgumentsSize(c, m, from, to - 1), LAMBDA rest : Ok(size + rest)))

\* the sum of the sizes of the locals up to the one at place index
RECURSIVE LocalsSize(_, _, _)
LocalsSize(c, m, index) ==
    IF index < 0 THEN Ok(0)
    ELSE Bind(LocalsSize(c, m, index - 1), LAMBDA rest :
         Bind(GetVariableSize(m, GetLocal(c, index)), LAMBDA size : Ok(rest + size)))

\* ld_bp, push(offset), add or sub
BaseAndOffset(offset, op) == Emitted(<<Op("ld_bp"), OpN("push", offset), Op(op)>>)

\* EmitLoadAddress of Parameter (lines 159-166), Local (lines 187-195),
\* ReturnVariable (lines 218-224) and Field (lines 128-131)
RECURSIVE EmitLoadAddress(_, _, _)
EmitLoadAddress(var, c, m) ==
    CASE var.kind = "Parameter" ->
            WithValue(ArgumentsSize(c, m, var.index + 1, GetArgumentCount(c) - 1),
                      LAMBDA after :
                         Then(BaseAndOffset(2 + after, "add"),
                              IF ~var.ref THEN Emitted(<<>>)
                              ELSE WithValue(GetVariableSize(m, var),
                                             LAMBDA size : Emitted(<<OpN("ld_ptr", size)>>))))
      [] var.kind = "Local" ->
            WithValue(LocalsSize(c, m, var.index), LAMBDA upto : BaseAndOffset(upto, "sub"))
      [] var.kind = "ReturnVariable" ->
            WithValue(ArgumentsSize(c, m, 0, GetArgumentCount(c) - 1),
                      LAMBDA all : BaseAndOffset(2 + all, "add"))
      [] var.kind = "Field" ->
            Then(EmitLoadAddress(var.relativeTo, c, m),
                 Emitted(<<OpN("push", var.offset), Op("add")>>))

\* EmitLoad and EmitStore of a variable: its address, then ld_ptr or st_ptr of
\* its size; a ReturnVariable of size 0 emits nothing
EmitAccess(var, c, m, op) ==
    LET Sized(size) ==
            IF var.kind = "ReturnVariable" /\ (~size.ok \/ size.v = 0)
            THEN WithValue(size, LAMBDA zero : Emitted(<<>>))
            ELSE Then(EmitLoadAddress(var, c, m),
                      WithValue(size, LAMBDA words : Emitted(<<OpN(op, words)>>)))
    IN  Sized(GetVariableSize(m, var))

EmitLoad(var, c, m) == EmitAccess(var, c, m, "ld_ptr")
EmitStore(var, c, m) == EmitAccess(var, c, m, "st_ptr")

-----------------------------------------------------------------------------
(* src/compiler.py: expressions. An expression is resolved and emitted      *)
(* within a callable c of a module m; known tells how far resolution has    *)
(* come: the locals of c and the callables of m before these places are     *)
(* resolved                                                                 *)

VoidExpression == [kind |-> "Void"]
ConstantExpression(value, type) == [kind |-> "Constant", value |-> value, type |-> type]
VariableExpression(target) == [kind |-> "Variable", target |-> target]
BinaryOperandExpression(operator, exprA, exprB) ==
    [kind |-> "Binary", operator |-> operator, exprA |-> exprA, exprB |-> exprB]
CallExpression(target, args) == [kind |-> "Call", target |-> target, args |-> args]

AssemblyInstructionStatement(operation, operands) ==
    [kind |-> "AsmExec", operation |-> operation, operands |-> operands]

InlineBody(name, returnType, body) ==
    [kind |-> "InlineBody", name |-> name, args |-> <<>>, returnType |-> returnType, body |-> body]

\* gb.py: the body of a default binary operator
OperatorBody(mnemonic) ==
    << AssemblyInstructionStatement(t_pop, <<t_R2>>),
       AssemblyInstructionStatement(t_pop, <<t_R1>>),
       AssemblyInstructionStatement(mnemonic, <<t_R1, t_R1, t_R2>>),
       AssemblyInstructionStatement(t_psh, <<t_R1>>) >>

\* compiler._operators: the name of an operator in the name of its function
OperatorNames ==
    << <<"+", <<"A","D","D">> >>, <<"-", <<"S","U","B">> >>,
       <<"*", <<"M","U","L">> >>, <<"/", <<"D","I","V">> >>,
       <<"<<", <<"L","S","H","I","F","T">> >>, <<">>", <<"R","S","H","I","F","T">> >>,
       <<"AND", <<"A","N","D">> >>, <<"OR", <<"O","R">> >>, <<"XOR", <<"X","O","R">> >> >>

OperatorName(operator) ==
    OperatorNames[CHOOSE k \in 1..Len(OperatorNames) : OperatorNames[k][1] = operator][2]

\* BinaryOperandExpression.GetOperationName
GetOperationName(operator, a, b) ==
    <<"_","_">> \o OperatorName(operator) \o <<"_">> \o GetName(a) \o <<"_">> \o GetName(b)

\* gb.py: the mnemonics of the default operators on Integer and on UInteger
SignedMnemonics ==
    << t_add, t_sub, <<"m","u","l">>, <<"s","d","i","v">>, <<"s","b","s","l">>,
       <<"s","b","s","r">>, t_and, t_or, t_xor >>
UnsignedMnemonics ==
    << t_add, t_sub, <<"m","u","l">>, t_div, t_bsl, t_bsr, t_and, t_or, t_xor >>

\* gb.py: defaultFunctions
defaultFunctions ==
    << InlineBody(<<"_","_","C","A","S","T","_">> \o t_Integer \o <<"_">> \o t_UInteger,
                  UnsignedInteger, <<>>),
       InlineBody(<<"_","_","C","A","S","T","_">> \o t_UInteger \o <<"_">> \o t_Integer,
                  SignedInteger, <<>>) >>
    \o [k \in 1..Len(OperatorNames) |->
          InlineBody(GetOperationName(OperatorNames[k][1], SignedInteger, SignedInteger),
                     SignedInteger, OperatorBody(SignedMnemonics[k]))]
    \o [k \in 1..Len(OperatorNames) |->
          InlineBody(GetOperationName(OperatorNames[k][1], UnsignedInteger, UnsignedInteger),
                     UnsignedInteger, OperatorBody(UnsignedMnemonics[k]))]

\* Module.GetResolver: the resolver's functions, the later of a name winning
ResolverFunctions(m) == m.code \o defaultFunctions

\* Resolver.GetFunction
GetFunction(m, name) ==
    LET Among(functions) ==
            LET found == {k \in 1..Len(functions) : functions[k].name = name}
            IN  IF found = {} THEN Raise("Exception: Undefined function")
                ELSE Ok(functions[CHOOSE k \in found : \A j \in found : j <= k])
    IN  Among(ResolverFunctions(m))

\* the place of a callable in its module, counted from 0; the default
\* functions, which are built resolved, stand before every place
PlaceOf(m, callable) ==
    LET found == {k \in 1..Len(m.code) : m.code[k] = callable}
    IN  IF callable.kind = "InlineBody" \/ found = {} THEN -1
        ELSE (CHOOSE k \in found : \A j \in found : j <= k) - 1

\* Callable.GetReturnType
GetReturnType(m, callable, known) ==
    CASE callable.kind = "SubRoutine" -> Ok(VoidType)
      [] callable.kind = "InlineBody" -> Ok(callable.returnType)
      [] callable.kind = "Function" ->
            IF PlaceOf(m, callable) > known.callables
            THEN Raise("Exception: Type is not resolved.")
            ELSE GetType(ResolverTypes(m), callable.returnType)

\* everything is resolved: the state of emission
AllKnown(m, c) == [locals |-> GetLocalCount(c), callables |-> Len(m.code)]

IsAddressOf(target) == upper(target) = <<"A","D","D","R","E","S","S","O","F">>

\* Expression.GetResultType. A local that is not resolved yet has the name of
\* its type for type, which has none of a Type's methods
RECURSIVE GetResultType(_, _, _, _)
GetResultType(expr, c, m, known) ==
    CASE expr.kind = "Void" -> Ok(VoidType)
      [] expr.kind = "Constant" -> GetType(ResolverTypes(m), expr.type)
      [] expr.kind = "Variable" ->
            Bind(CallableGetVariable(c, m, expr.target, known.locals), LAMBDA target :
                 IF target = NoVariable THEN Raise("Exception: Type is not resolved.")
                 ELSE IF target.kind = "Local" /\ target.index >= known.locals
                 THEN Raise("AttributeError")
                 ELSE Ok(GetVariableType(m, target)))
      [] expr.kind = "Binary" ->
            Bind(GetResultType(expr.exprA, c, m, known), LAMBDA a :
            Bind(GetResultType(expr.exprB, c, m, known), LAMBDA b :
            Bind(GetFunction(m, GetOperationName(expr.operator, a, b)), LAMBDA target :
                 GetReturnType(m, target, known))))
      [] expr.kind = "Call" ->
            IF IsAddressOf(expr.target)
            THEN IF Len(expr.args) = 0 THEN Ok(PointerType(VoidType))
                 ELSE Bind(GetResultType(expr.args[1], c, m, known),
                           LAMBDA a : Ok(PointerType(a)))
            ELSE LET Returned(target) ==
                         IF ~target.ok THEN Raise("Exception: Function is not resolved.")
                         ELSE GetReturnType(m, target.v, known)
                 IN  Returned(GetFunction(m, expr.target))

\* an exception, or else what follows
OrElse(exc, rest) == IF exc # "" THEN exc ELSE rest

\* the exception of a call, or else what follows from its value
ExcOrElse(r, F(_)) == IF r.ok THEN F(r.v) ELSE r.exc

\* a VariableExpression below expr was bound to None: resolving it once more
\* calls Callable.GetVariable(None)
RECURSIVE Unbound(_, _, _, _)
Unbound(expr, c, m, known) ==
    CASE expr.kind = "Variable" ->
            CallableGetVariable(c, m, expr.target, known.locals) = Ok(NoVariable)
      [] expr.kind = "Binary" ->
            \/ Unbound(expr.exprA, c, m, known)
            \/ Unbound(expr.exprB, c, m, known)
      [] expr.kind = "Call" ->
            \E k \in 1..Len(expr.args) : Unbound(expr.args[k], c, m, known)
      [] OTHER -> FALSE

\* Expression.Resolve: "" when it returns, else its exception. The operator
\* expressions resolve their operands, name their function after the
\* operands' types and resolve the call of it, the operands once more
RECURSIVE ResolveExpression(_, _, _, _)
RECURSIVE ResolveExpressions(_, _, _, _)
ResolveExpression(expr, c, m, known) ==
    CASE expr.kind = "Void" -> ""
      [] expr.kind = "Constant" -> GetType(ResolverTypes(m), expr.type).exc
      [] expr.kind = "Variable" -> CallableGetVariable(c, m, expr.target, known.locals).exc
      [] expr.kind = "Binary" ->
            OrElse(ResolveExpression(expr.exprA, c, m, known),
            OrElse(ResolveExpression(expr.exprB, c, m, known),
            ExcOrElse(GetResultType(expr.exprA, c, m, known), LAMBDA a :
            ExcOrElse(GetResultType(expr.exprB, c, m, known), LAMBDA b :
            OrElse(IF Unbound(expr, c, m, known) THEN "AttributeError" ELSE "",
                   GetFunction(m, GetOperationName(expr.operator, a, b)).exc)))))
      [] expr.kind = "Call" ->
            OrElse(ResolveExpressions(expr.args, c, m, known),
                   IF IsAddressOf(expr.target) THEN ""
                   ELSE GetFunction(m, expr.target).exc)

ResolveExpressions(exprs, c, m, known) ==
    IF Len(exprs) = 0 THEN ""
    ELSE OrElse(ResolveExpression(exprs[1], c, m, known),
                ResolveExpressions(Tail(exprs), c, m, known))

-----------------------------------------------------------------------------
(* src/compiler.py: statements, and the emission of expressions, statements *)
(* and callables as the requests they make of the emitter                   *)

\* a LocalStatement holds the Local it declares; initial is <<>> for None
LocalStatement(type, name, initial) ==
    [kind |-> "Local", local |-> [type |-> type, name |-> name, initial |-> initial]]
AssignmentStatement(target, expr) == [kind |-> "Assignment", target |-> target, expr |-> expr]
ReturnStatement(expr) == [kind |-> "Return", expr |-> expr]
AssemblyLoadStatement(source) == [kind |-> "AsmLoad", source |-> source]
AssemblyStoreStatement(source) == [kind |-> "AsmStore", source |-> source]
CallStatement(expr) == [kind |-> "CallStatement", expr |-> expr]

SubRoutine(name, args, body) ==
    [kind |-> "SubRoutine", name |-> name, args |-> args, returnType |-> <<>>, body |-> body]
Function(name, args, returnType, body) ==
    [kind |-> "Function", name |-> name, args |-> args, returnType |-> returnType, body |-> body]

\* f"__{context.GetName()}__return"
ReturnLabel(name) == <<"_","_">> \o name \o <<"_","_","r","e","t","u","r","n">>

\* context.GetVariable(name).EmitLoad / .EmitStore of a statement
EmitNamedAccess(name, c, m, op) ==
    WithValue(CallableGetVariable(c, m, name, GetLocalCount(c)), LAMBDA var :
              IF var = NoVariable THEN Thrown("AttributeError")
              ELSE EmitAccess(var, c, m, op))

RECURSIVE EmitExpression(_, _, _)
RECURSIVE EmitExpressions(_, _, _)
RECURSIVE EmitArguments(_, _, _)
RECURSIVE EmitStatement(_, _, _)
RECURSIVE EmitStatements(_, _, _)

\* CallExpression.Emit, lines 458-471, for the callable the target resolved to
EmitCall(target, args, c, m) ==
    LET Called(pushed) ==
            Then(pushed.emitted,
                 Emitted(<<OpS("call", target.name)>>
                         \o (IF pushed.size > 0 THEN <<OpN("rem_sp", pushed.size)>> ELSE <<>>)))
    IN  IF target.kind = "InlineBody"
        THEN Then(EmitExpressions(args, c, m), EmitStatements(target.body, target, m))
        ELSE WithValue(GetReturnType(m, target, AllKnown(m, c)), LAMBDA type :
             WithValue(GetSize(type, m, {}), LAMBDA size :
                  Then(Emitted(IF size > 0 THEN <<OpN("add_sp", size)>> ELSE <<>>),
                       Called(EmitArguments(args, c, m)))))

\* Expression.Emit
EmitExpression(expr, c, m) ==
    CASE expr.kind = "Void" -> Emitted(<<>>)
      [] expr.kind = "Constant" -> Emitted(<<OpN("push", expr.value)>>)
      [] expr.kind = "Variable" ->
            LET Load(target) ==
                    IF target.v = NoVariable THEN Thrown("Exception: Type is not resolved.")
                    ELSE EmitLoad(target.v, c, m)
            IN  Load(CallableGetVariable(c, m, expr.target, GetLocalCount(c)))
      [] expr.kind = "Binary" ->
            EmitCall(GetFunction(m, GetOperationName(
                                        expr.operator,
                                        GetResultType(expr.exprA, c, m, AllKnown(m, c)).v,
                                        GetResultType(expr.exprB, c, m, AllKnown(m, c)).v)).v,
                     <<expr.exprA, expr.exprB>>, c, m)
      [] expr.kind = "Call" ->
            IF IsAddressOf(expr.target)
            THEN IF Len(expr.args) # 1
                 THEN Thrown("Exception: Expected 1 operand for \"ADDRESSOF\" operator.")
                 ELSE IF expr.args[1].kind # "Variable"
                 THEN Thrown("Exception: Expression does not have an address.")
                 ELSE LET Address(target) ==
                              IF target.v = NoVariable THEN Thrown("TypeError")
                              ELSE EmitLoadAddress(target.v, c, m)
                      IN  Address(CallableGetVariable(c, m, expr.args[1].target,
                                                      GetLocalCount(c)))
            ELSE EmitCall(GetFunction(m, expr.target).v, expr.args, c, m)

\* for arg in args: arg.Emit(emitter, context)
EmitExpressions(exprs, c, m) ==
    IF Len(exprs) = 0 THEN Emitted(<<>>)
    ELSE Then(EmitExpression(exprs[1], c, m), EmitExpressions(Tail(exprs), c, m))

\* the arguments emitted, each counted as one word
EmitArguments_counting_words(args, c, m) ==
    [emitted |-> EmitExpressions(args, c, m), size |-> Len(args)]

\* lines 466-469: the arguments emitted, with the sum of their sizes
EmitArguments(args, c, m) ==
    LET Counted(first, size, rest) ==
            IF first.exc # "" THEN [emitted |-> first, size |-> 0]
            ELSE IF ~size.ok THEN [emitted |-> Then(first, Thrown(size.exc)), size |-> 0]
            ELSE [emitted |-> Then(first, rest.emitted), size |-> size.v + rest.size]
    IN  IF Len(args) = 0 THEN [emitted |-> Emitted(<<>>), size |-> 0]
        ELSE Counted(EmitExpression(args[1], c, m),
                     Bind(GetResultType(args[1], c, m, AllKnown(m, c)),
                          LAMBDA type : GetSize(type, m, {})),
                     EmitArguments(Tail(args), c, m))

\* Statement.Emit
EmitStatement(st, c, m) ==
    CASE st.kind = "Local" -> Emitted(<<>>)
      [] st.kind = "Assignment" ->
            Then(EmitExpression(st.expr, c, m), EmitNamedAccess(st.target, c, m, "st_ptr"))
      [] st.kind = "Return" ->
            WithValue(GetResultType(st.expr, c, m, AllKnown(m, c)), LAMBDA type :
            WithValue(GetReturnType(m, c, AllKnown(m, c)), LAMBDA declared :
                 IF ~TypeEq(type, declared)
                 THEN Thrown("Exception: Return value does not match function return type.")
                 ELSE Then(EmitExpression(st.expr, c, m),
                      Then(EmitStore(ReturnVariable(type), c, m),
                           Emitted(<<OpS("jmp", ReturnLabel(c.name))>>)))))
      [] st.kind = "AsmLoad" -> EmitNamedAccess(st.source, c, m, "ld_ptr")
      [] st.kind = "AsmStore" -> EmitNamedAccess(st.source, c, m, "st_ptr")
      [] st.kind = "AsmExec" ->
            Emitted(<<Request("emit_raw", 0, st.operation, st.operands)>>)
      [] st.kind = "CallStatement" ->
            Then(EmitExpression(st.expr, c, m),
                 WithValue(GetResultType(st.expr, c, m, AllKnown(m, c)), LAMBDA type :
                 WithValue(GetSize(type, m, {}), LAMBDA size :
                      Emitted(IF size > 0 THEN <<OpN("rem_sp", size)>> ELSE <<>>))))

\* for statement in self.GetBody(): statement.Emit(emitter, self)
EmitStatements(body, c, m) ==
    IF Len(body) = 0 THEN Emitted(<<>>)
    ELSE Then(EmitStatement(body[1], c, m), EmitStatements(Tail(body), c, m))

-----------------------------------------------------------------------------
(* src/compiler.py: the resolution and the emission of callables and        *)
(* modules                                                                  *)

\* Statement.Resolve: "" when it returns, else its exception
ResolveStatement(st, c, m, known) ==
    CASE st.kind = "Local" -> GetType(ResolverTypes(m), st.local.type).exc
      [] st.kind \in {"Assignment", "Return", "CallStatement"} ->
            ResolveExpression(st.expr, c, m, known)
      [] OTHER -> ""

\* for statement in self.GetBody(): statement.Resolve(resolver, self), from
\* the k-th statement on
RECURSIVE ResolveStatements(_, _, _, _)
ResolveStatements(k, c, m, place) ==
    IF k > Len(c.body) THEN ""
    ELSE OrElse(ResolveStatement(c.body[k], c, m,
                                 [locals |-> Len(LocalsOf(SubSeq(c.body, 1, k - 1))),
                                  callables |-> place]),
                ResolveStatements(k + 1, c, m, place))

\* for arg in self._namedArgs: arg.Resolve(resolver)
RECURSIVE ResolveParameters(_, _)
ResolveParameters(args, m) ==
    IF Len(args) = 0 THEN ""
    ELSE OrElse(GetType(ResolverTypes(m), args[1].type).exc,
                ResolveParameters(Tail(args), m))

\* SubRoutine.Resolve and Function.Resolve of the callable at a place of m
ResolveCallable(c, m, place) ==
    OrElse(IF c.kind = "Function" THEN GetType(ResolverTypes(m), c.returnType).exc ELSE "",
    OrElse(ResolveParameters(c.args, m),
           ResolveStatements(1, c, m, place)))

\* Module.Resolve, from the k-th callable on, the structures being resolved
RECURSIVE ResolveCode(_, _)
ResolveCode(m, k) ==
    IF k > Len(m.code) THEN ""
    ELSE OrElse(ResolveCallable(m.code[k], m, k - 1), ResolveCode(m, k + 1))

\* Module.Resolve with the resolver of Module.GetResolver
ModuleResolve(m) == OrElse(ResolveTypes(m), ResolveCode(m, 1))

\* Callable.Emit, lines 603-608: the space of the locals
RECURSIVE EmitLocals(_, _, _)
EmitLocals(c, m, k) ==
    IF k >= GetLocalCount(c) THEN Emitted(<<>>)
    ELSE WithValue(GetVariableSize(m, GetLocal(c, k)), LAMBDA size :
              IF LocalsOf(c.body)[k + 1].initial # <<>> THEN Thrown("TypeError")
              ELSE Then(Emitted(<<OpN("add_sp", size)>>), EmitLocals(c, m, k + 1)))

\* Callable.Emit, lines 598-608
EmitPrologue(c, m) ==
    Then(Emitted(<<OpS("mark_label", c.name), Op("ld_bp"), Op("ld_sp"), Op("st_bp")>>),
         EmitLocals(c, m, 0))

\* Callable.Emit, lines 610-614
EmitEpilogue(c) ==
    Emitted(<<OpS("mark_label", ReturnLabel(c.name)), Op("ld_bp"), Op("st_sp"),
              Op("st_bp"), Op("ret")>>)

\* Callable.Emit
EmitCallable(c, m) ==
    Then(EmitPrologue(c, m), Then(EmitStatements(c.body, c, m), EmitEpilogue(c)))

\* the emitter after it has served the requests in turn. The buffer a request
\* leaves is compared with the one it found, which makes TLC build each
\* buffer before it goes on to the next request
RECURSIVE ServeAll(_, _)
ServeAll(e, requests) ==
    IF Len(requests) = 0 THEN e
    ELSE LET served == Serve(e, requests[1])
         IN  IF Len(served.insts) < Len(e.insts) THEN e
             ELSE ServeAll(served, Tail(requests))

-----------------------------------------------------------------------------
(* src/gb.py, lines 138-147: the driver. Every module is resolved with its  *)
(* own resolver, then every module is emitted into one emitter, callable by *)
(* callable and statement by statement, then the emitter commits            *)

MaxBody == 1

t_F == <<"F">>
t_G == <<"G">>
t_x == <<"x">>
t_y == <<"y">>
t_xa == <<"x", ".", "a">>
t_IntegerPointer == t_Integer \o t_star

\* Structure S, with the fields a and b As Integer
StructureS ==
    [name |-> t_S,
     fields |-> << [name |-> t_a, type |-> t_Integer, index |-> 0],
                   [name |-> t_b, type |-> t_Integer, index |-> 1] >>]

\* the expressions of the programs: x is what the callable declares, y is
\* declared nowhere, x.a is a field when x is an S
Constant3 == ConstantExpression(3, t_Integer)
ExpressionsOver(name) ==
    { VariableExpression(name),
      BinaryOperandExpression("+", VariableExpression(name), Constant3),
      CallExpression(t_G, <<VariableExpression(name)>>),
      CallExpression(<<"A","d","d","r","e","s","s","O","f">>, <<VariableExpression(name)>>) }
Expressions ==
    {VoidExpression, Constant3, VariableExpression(t_xa)}
    \cup ExpressionsOver(t_x) \cup ExpressionsOver(t_y)

Statements ==
    { ReturnStatement(e) : e \in Expressions }
    \cup { AssignmentStatement(n, Constant3) : n \in {t_x, t_y, t_xa} }
    \cup { AssemblyLoadStatement(n) : n \in {t_x, t_y, t_xa} }
    \cup { AssemblyStoreStatement(n) : n \in {t_x, t_y} }
    \cup { CallStatement(CallExpression(t_G, <<VariableExpression(n)>>)) : n \in {t_x, t_y} }
    \cup { AssemblyInstructionStatement(t_nop, <<>>),
           AssemblyInstructionStatement(t_mov, <<t_SP, t_R1>>) }

\* what a callable declares: nothing, a parameter x, or a local x, without
\* and with an initial value
Frames ==
    { [args |-> <<>>, locals |-> <<>>],
      [args |-> <<Parameter(t_Integer, FALSE, t_x, 0)>>, locals |-> <<>>],
      [args |-> <<Parameter(t_Integer, TRUE, t_x, 0)>>, locals |-> <<>>],
      [args |-> <<Parameter(t_S, FALSE, t_x, 0)>>, locals |-> <<>>],
      [args |-> <<>>, locals |-> <<LocalStatement(t_Integer, t_x, <<>>)>>],
      [args |-> <<>>, locals |-> <<LocalStatement(t_Integer, t_x, <<3>>)>>] }

ReturnStatements == { st \in Statements : st.kind = "Return" }

BodiesOf(statements) == UNION { [1..n -> statements] : n \in 1..MaxBody }

\* Sub F with one of the frames and any body, Function F with a body of
\* Return statements
CallablesF ==
    { SubRoutine(t_F, f.args, f.locals \o body) : f \in Frames, body \in BodiesOf(Statements) }
    \cup { Function(t_F, f.args, type, f.locals \o body) :
             f \in Frames, body \in BodiesOf(ReturnStatements),
             type \in {t_Integer, t_UInteger, t_IntegerPointer} }

\* Function G(a As Integer) As Integer: Return a
CallableG ==
    Function(t_G, <<Parameter(t_Integer, FALSE, t_a, 0)>>, t_Integer,
             <<ReturnStatement(VariableExpression(t_a))>>)

CallsG(expr) == expr.kind = "Call" /\ expr.target = t_G
MentionsG(c) ==
    \E k \in 1..Len(c.body) :
        /\ c.body[k].kind \in {"Return", "CallStatement"}
        /\ CallsG(c.body[k].expr)

ModuleA(code) == Module(<<"A">>, <<StructureS>>, code)
ModuleB == Module(<<"B">>, <<>>, <<CallableG>>)

\* F declares a parameter or a local
Declares(c) == c.args # <<>> \/ LocalsOf(c.body) # <<>>

\* the inputs of a run: module A with F alone; when F calls G, also G in A
\* itself; when F calls G or declares nothing, also A and B, with G, in
\* either order
Programs ==
    UNION { { <<ModuleA(<<f>>)>> }
            \cup (IF MentionsG(f) THEN { <<ModuleA(<<CallableG, f>>)>> } ELSE {})
            \cup (IF MentionsG(f) \/ ~Declares(f)
                  THEN { <<ModuleA(<<f>>), ModuleB>>, <<ModuleB, ModuleA(<<f>>)>> }
                  ELSE {}) :
            f \in CallablesF }

\* the first module from the k-th on that has a callable, or one past the last
RECURSIVE FirstWithCode(_, _)
FirstWithCode(modules, k) ==
    IF k > Len(modules) \/ Len(modules[k].code) > 0 THEN k
    ELSE FirstWithCode(modules, k + 1)

\* where emission stands: the module, the callable in it, and the step in the
\* callable, 0 before its prologue and k before its k-th statement
Position(module, callable, step) == [module |-> module, callable |-> callable, step |-> step]

InitDriver ==
    /\ ir \in { [modules |-> p, resolved |-> 0, at |-> Position(1, 1, 0), requests |-> <<>>] :
                  p \in Programs }
    /\ pc = "resolve"
    /\ insts = <<>>
    /\ current = 0
    /\ internal = 0
    /\ optimize = TRUE
    /\ registers = EmptyRegisters
    /\ stack = <<>>
    /\ i = 1
    /\ stream = <<>>
    /\ err = ""
    /\ lastOp = ""
    /\ calls = 0
    /\ input = <<>>

\* gb.py line 140, one turn of the loop: module.Resolve(module.GetResolver(...))
ResolveModule ==
    /\ pc = "resolve"
    /\ LET k == ir.resolved + 1
           r == ModuleResolve(ir.modules[k])
           first == FirstWithCode(ir.modules, 1)
       IN  /\ err' = r
           /\ pc' = IF r # "" THEN "fatal"
                    ELSE IF k < Len(ir.modules) THEN "resolve"
                    ELSE IF first <= Len(ir.modules) THEN "lower" ELSE "emit"
           /\ ir' = [ir EXCEPT !.resolved = IF r = "" THEN k ELSE @,
                               !.at = Position(first, 1, 0)]
    /\ lastOp' = "Module.Resolve"
    /\ UNCHANGED <<insts, current, internal, optimize, registers, stack, i, stream, calls, input>>

AtModule == ir.modules[ir.at.module]
AtCallable == AtModule.code[ir.at.callable]

\* the requests of one step reach the emitter; an exception ends the run,
\* what was requested before it staying in the buffer
Lowered(step, lowered, next, op) ==
    /\ pc = "lower"
    /\ ir.at.step = step
    /\ LET e == ServeAll(Emitter(insts, current, internal), lowered.requests)
       IN  /\ insts' = e.insts
           /\ current' = e.current
           /\ internal' = e.internal
    /\ err' = lowered.exc
    /\ pc' = IF lowered.exc # "" THEN "fatal"
             ELSE IF next.module > Len(ir.modules) THEN "emit" ELSE "lower"
    /\ ir' = [ir EXCEPT !.requests = lowered.requests,
                        !.at = IF lowered.exc # "" THEN @ ELSE next]
    /\ lastOp' = op
    /\ UNCHANGED <<optimize, registers, stack, i, stream, calls, input>>

\* Callable.Emit, lines 598-608
EmitCallableEntry ==
    /\ pc = "lower"
    /\ Lowered(0, EmitPrologue(AtCallable, AtModule),
               Position(ir.at.module, ir.at.callable, 1), "Callable.Emit")

\* Callable.Emit, line 609, one turn of the loop
EmitBodyStatement ==
    /\ pc = "lower"
    /\ ir.at.step \in 1..Len(AtCallable.body)
    /\ Lowered(ir.at.step, EmitStatement(AtCallable.body[ir.at.step], AtCallable, AtModule),
               Position(ir.at.module, ir.at.callable, ir.at.step + 1), "Statement.Emit")

\* Callable.Emit, lines 610-614, and on to the next callable (Module.Emit,
\* gb.py line 143)
EmitCallableExit ==
    /\ pc = "lower"
    /\ ir.at.step = Len(AtCallable.body) + 1
    /\ Lowered(ir.at.step, EmitEpilogue(AtCallable),
               IF ir.at.callable < Len(AtModule.code)
               THEN Position(ir.at.module, ir.at.callable + 1, 0)
               ELSE Position(FirstWithCode(ir.modules, ir.at.module + 1), 1, 0),
               "Callable.Exit")

DriverNext == ResolveModule \/ EmitCallableEntry \/ EmitBodyStatement \/ EmitCallableExit

SpecDriver == InitDriver /\ [][DriverNext \/ CommitNext]_vars

-----------------------------------------------------------------------------
(* The frame of a callable: a callable with up to MaxParams parameters is    *)
(* resolved and the address of one of its parameters, or of its return      *)
(* slot, is asked for                                                       *)

MaxParams == 3

t_R == <<"R">>

\* Structure R, which holds itself
StructureR == [name |-> t_R, fields |-> << [name |-> t_a, type |-> t_R, index |-> 0] >>]

\* the parameters p0, p1, ... of the types and the passing given
ParameterList(types, refs) ==
    [k \in 1..Len(types) |-> Parameter(types[k], refs[k], <<"p">> \o str(k - 1), k - 1)]

\* Sub F(p0, p1, ...) with an empty body, the parameters of the types Integer,
\* S and R, by value or ByRef
FrameCallables ==
    UNION { { SubRoutine(t_F, ParameterList(types, refs), <<>>) :
                types \in [1..n -> {t_Integer, t_S, t_R}], refs \in [1..n -> BOOLEAN] } :
            n \in 0..MaxParams }

InitFrame ==
    /\ ir \in { [modules |-> << Module(<<"A">>, <<StructureS, StructureR>>, <<c>>) >>,
                 resolved |-> 0, var |-> NoVariable, requests |-> <<>>] :
                  c \in FrameCallables }
    /\ pc = "resolve"
    /\ insts = <<>>
    /\ current = 0
    /\ internal = 0
    /\ optimize = TRUE
    /\ registers = EmptyRegisters
    /\ stack = <<>>
    /\ i = 1
    /\ stream = <<>>
    /\ err = ""
    /\ lastOp = ""
    /\ calls = 0
    /\ input = <<>>

\* gb.py line 140 for the one module
ResolveFrame ==
    /\ pc = "resolve"
    /\ err' = ModuleResolve(ir.modules[1])
    /\ pc' = IF err' = "" THEN "resolved" ELSE "fatal"
    /\ ir' = [ir EXCEPT !.resolved = IF err' = "" THEN 1 ELSE 0]
    /\ lastOp' = "Module.Resolve"
    /\ UNCHANGED <<insts, current, internal, optimize, registers, stack, i, stream, calls, input>>

FrameCallable == ir.modules[1].code[1]

\* var.EmitLoadAddress(emitter, context) with the callable for context
LoadAddressOf(var, op) ==
    /\ pc = "resolved"
    /\ LET lowered == EmitLoadAddress(var, FrameCallable, ir.modules[1])
       IN  /\ LET e == ServeAll(Emitter(insts, current, internal), lowered.requests)
               IN  /\ insts' = e.insts
                   /\ current' = e.current
                   /\ internal' = e.internal
           /\ err' = lowered.exc
           /\ pc' = IF lowered.exc # "" THEN "fatal" ELSE "addressed"
           /\ ir' = [ir EXCEPT !.var = var, !.requests = lowered.requests]
    /\ lastOp' = op
    /\ UNCHANGED <<optimize, registers, stack, i, stream, calls, input>>

\* Parameter.EmitLoadAddress, lines 159-166
ParameterEmitLoadAddress ==
    \E k \in 0..GetArgumentCount(FrameCallable) - 1 :
        LoadAddressOf(GetArgument(FrameCallable, k), "Parameter.EmitLoadAddress")

\* ReturnVariable.EmitLoadAddress, lines 218-224
ReturnVariableEmitLoadAddress ==
    /\ pc = "resolved"
    /\ LoadAddressOf(ReturnVariable(SignedInteger), "ReturnVariable.EmitLoadAddress")

FrameNext == ResolveFrame \/ ParameterEmitLoadAddress \/ ReturnVariableEmitLoadAddress

SpecFrame == InitFrame /\ [][FrameNext]_vars

\* the values of the operand stack of the Emitter interface: an immediate,
\* the base pointer plus an offset, and what is held at an address
Immediate(n) == [kind |-> "immediate", n |-> n]
FromBase(n) == [kind |-> "base", n |-> n]
Held(address, size) == [kind |-> "held", address |-> address, size |-> size]

\* Emitter.add: pop value2 and value1 and push the sum
Sum(value1, value2) ==
    CASE value1.kind = "immediate" /\ value2.kind = "immediate" -> Immediate(value1.n + value2.n)
      [] value1.kind = "base" /\ value2.kind = "immediate" -> FromBase(value1.n + value2.n)
      [] value1.kind = "immediate" /\ value2.kind = "base" -> FromBase(value1.n + value2.n)
      [] OTHER -> [kind |-> "sum", value1 |-> value1, value2 |-> value2]

\* the operand stack after the requests ld_bp, push, add and ld_ptr, as the
\* Emitter interface describes them
RECURSIVE Operands(_, _)
Operands(operands, requests) ==
    IF Len(requests) = 0 THEN operands
    ELSE LET r == requests[1]
             n == Len(operands)
         IN  Operands(CASE r.op = "ld_bp" -> Append(operands, FromBase(0))
                        [] r.op = "push" -> Append(operands, Immediate(r.n))
                        [] r.op = "add" /\ n >= 2 ->
                              Append(SubSeq(operands, 1, n - 2), Sum(operands[n - 1], operands[n]))
                        [] r.op = "ld_ptr" /\ n >= 1 ->
                              Append(SubSeq(operands, 1, n - 1), Held(operands[n], r.n))
                        [] OTHER -> operands,
                      Tail(requests))

-----------------------------------------------------------------------------
(* The call of a callable: Sub F(x As Integer, s As S) calls G with up to    *)
(* MaxArgs arguments, as an expression and as a statement                   *)

MaxArgs == 2

t_s == <<"s">>

\* the arguments of the calls: a constant, the parameters of F, an operator
\* and a call of G
CallArguments ==
    { Constant3, VariableExpression(t_x), VariableExpression(t_s),
      BinaryOperandExpression("+", VariableExpression(t_x), Constant3),
      CallExpression(t_G, <<Constant3>>) }

\* G(a As Integer) as a Sub and as a Function As Integer and As S
Callees ==
    { SubRoutine(t_G, <<Parameter(t_Integer, FALSE, t_a, 0)>>, <<>>) }
    \cup { Function(t_G, <<Parameter(t_Integer, FALSE, t_a, 0)>>, type, <<>>) :
             type \in {t_Integer, t_S} }

\* Sub F(x As Integer, s As S) with the call for its body
Caller(call) ==
    SubRoutine(t_F, <<Parameter(t_Integer, FALSE, t_x, 0), Parameter(t_S, FALSE, t_s, 1)>>,
               <<CallStatement(call)>>)

InitCall ==
    /\ ir \in { [modules |-> << Module(<<"A">>, <<StructureS>>,
                                       <<g, Caller(CallExpression(t_G, args))>>) >>,
                 resolved |-> 0, requests |-> <<>>] :
                  g \in Callees,
                  args \in UNION { [1..n -> CallArguments] : n \in 0..MaxArgs } }
    /\ pc = "resolve"
    /\ insts = <<>>
    /\ current = 0
    /\ internal = 0
    /\ optimize = TRUE
    /\ registers = EmptyRegisters
    /\ stack = <<>>
    /\ i = 1
    /\ stream = <<>>
    /\ err = ""
    /\ lastOp = ""
    /\ calls = 0
    /\ input = <<>>

CallingCallable == ir.modules[1].code[2]
TheCall == CallingCallable.body[1].expr

\* the requests of an emission reach the emitter
Called(lowered, op) ==
    /\ pc = "resolved"
    /\ LET e == ServeAll(Emitter(insts, current, internal), lowered.requests)
       IN  /\ insts' = e.insts
           /\ current' = e.current
           /\ internal' = e.internal
    /\ err' = lowered.exc
    /\ pc' = IF lowered.exc # "" THEN "fatal" ELSE "called"
    /\ ir' = [ir EXCEPT !.requests = lowered.requests]
    /\ lastOp' = op
    /\ UNCHANGED <<optimize, registers, stack, i, stream, calls, input>>

\* CallExpression.Emit, lines 451-471
CallExpressionEmit ==
    /\ pc = "resolved"
    /\ Called(EmitExpression(TheCall, CallingCallable, ir.modules[1]), "CallExpression.Emit")

\* CallStatement.Emit, lines 554-557
CallStatementEmit ==
    /\ pc = "resolved"
    /\ Called(EmitStatement(CallingCallable.body[1], CallingCallable, ir.modules[1]),
              "CallStatement.Emit")

CallNext == ResolveFrame \/ CallExpressionEmit \/ CallStatementEmit

SpecCall == InitCall /\ [][CallNext]_vars

\* by how many words a request of the Emitter interface moves the stack, a
\* call leaving it as it found it
Growth(r) ==
    CASE r.op \in {"push", "ld_bp", "ld_sp"} -> 1
      [] r.op \in {"pop", "add", "sub", "st_bp", "st_sp"} -> -1
      [] r.op = "add_sp" -> r.n
      [] r.op = "rem_sp" -> -r.n
      [] r.op = "ld_ptr" -> r.n - 1
      [] r.op = "st_ptr" -> -(r.n + 1)
      [] r.op = "emit_raw" -> IF r.s = t_psh THEN 1 ELSE IF r.s = t_pop THEN -1 ELSE 0
      [] OTHER -> 0

\* the growth of the stack over the requests
RECURSIVE StackGrowth(_)
StackGrowth(requests) ==
    IF Len(requests) = 0 THEN 0
    ELSE Growth(requests[1]) + StackGrowth(Tail(requests))

-----------------------------------------------------------------------------
(* src/gb.py: the scan of the command line, lines 119-136, and the start of  *)
(* the main sequence                                                        *)

MaxArgv == 3

t_dash_o == <<"-", "o">>
t_main_urcl == <<"m", "a", "i", "n", ".", "u", "r", "c", "l">>

\* the tokens of the command lines: the flag -o, an unknown flag, a lone
\* dash, two names and the empty token
ArgvTokens == { t_dash_o, <<"-", "x">>, <<"-">>, <<"a">>, <<"b">>, <<>> }

\* lines 119-122: flags, args, inputs and flag before the loop
ScanStart == [flags |-> <<>>, args |-> [f \in {t_dash_o} |-> t_main_urcl],
              inputs |-> <<>>, flag |-> <<>>]

\* a scan that never forgets the pending flag
ScanToken_keeping_flag(scan, arg) ==
    IF startswith(arg, <<"-">>)
    THEN [scan EXCEPT !.flag = arg, !.flags = Append(@, arg)]
    ELSE IF scan.flag = <<>> THEN [scan EXCEPT !.inputs = Append(@, arg)]
    ELSE [scan EXCEPT !.args = [f \in DOMAIN @ \cup {scan.flag} |->
                                   IF f = scan.flag THEN arg ELSE @[f]]]

\* lines 123-132, one turn of the loop over sys.argv[1:]
ScanToken(scan, arg) ==
    IF startswith(arg, <<"-">>)
    THEN [scan EXCEPT !.flag = arg, !.flags = Append(@, arg)]
    ELSE IF scan.flag = <<>>
    THEN [scan EXCEPT !.inputs = Append(@, arg), !.flag = <<>>]
    ELSE [scan EXCEPT !.args = [f \in DOMAIN @ \cup {scan.flag} |->
                                   IF f = scan.flag THEN arg ELSE @[f]],
                      !.flag = <<>>]

InitArgs ==
    /\ ir \in { [argv |-> argv, k |-> 1, scan |-> ScanStart, printed |-> "",
                 exit |-> 0, parsed |-> 0, opened |-> FALSE] :
                  argv \in UNION { [1..n -> ArgvTokens] : n \in 0..MaxArgv } }
    /\ pc = "scan"
    /\ insts = <<>>
    /\ current = 0
    /\ internal = 0
    /\ optimize = TRUE
    /\ registers = EmptyRegisters
    /\ stack = <<>>
    /\ i = 1
    /\ stream = <<>>
    /\ err = ""
    /\ lastOp = ""
    /\ calls = 0
    /\ input = <<>>

\* lines 123-132: the next token of the command line is scanned
ScanArgument ==
    /\ pc = "scan"
    /\ ir.k <= Len(ir.argv)
    /\ ir' = [ir EXCEPT !.scan = ScanToken(@, ir.argv[ir.k]), !.k = @ + 1]
    /\ lastOp' = "scan"
    /\ UNCHANGED <<insts, current, internal, optimize, registers, stack, i, stream, pc, err, calls, input>>

\* lines 134-136: without inputs the run prints and exits with code 1
CheckInputs ==
    /\ pc = "scan"
    /\ ir.k > Len(ir.argv)
    /\ IF Len(ir.scan.inputs) = 0
       THEN /\ ir' = [ir EXCEPT !.printed = "No input files specified.", !.exit = 1]
            /\ pc' = "exit"
       ELSE /\ ir' = ir
            /\ pc' = "parse"
    /\ lastOp' = "check"
    /\ UNCHANGED <<insts, current, internal, optimize, registers, stack, i, stream, err, calls, input>>

\* line 138: the inputs are parsed, one file after the other
ParseInput ==
    /\ pc = "parse"
    /\ ir' = [ir EXCEPT !.parsed = @ + 1]
    /\ pc' = IF ir.parsed + 1 = Len(ir.scan.inputs) THEN "parsed" ELSE "parse"
    /\ lastOp' = "parse_file"
    /\ UNCHANGED <<insts, current, internal, optimize, registers, stack, i, stream, err, calls, input>>

ArgsNext == ScanArgument \/ CheckInputs \/ ParseInput

SpecArgs == InitArgs /\ [][ArgsNext]_vars

-----------------------------------------------------------------------------
(* parse_value on literals: a sign, a prefix and up to MaxDigits digits, and *)
(* the literals -0x10, -16, 0b10000 and 0o20                                *)

MaxDigits == 3

Prefixes ==
    { <<>>, <<"0", "x">>, <<"0", "X">>, <<"0", "o">>, <<"0", "O">>, <<"0", "b">>, <<"0", "B">> }

\* the literals: sign, prefix and digits
Literal(sign, prefix, digits) == [sign |-> sign, prefix |-> prefix, digits |-> digits]
Literals ==
    { Literal(sign, prefix, digits) :
        sign \in {<<>>, <<"-">>}, prefix \in Prefixes,
        digits \in UNION { [1..n -> {"0", "1", "2", "9", "F", "f"}] : n \in 1..MaxDigits } }
    \cup { Literal(<<"-">>, <<"0", "x">>, <<"1", "0">>),
           Literal(<<"-">>, <<>>, <<"1", "6">>),
           Literal(<<>>, <<"0", "b">>, <<"1", "0", "0", "0", "0">>),
           Literal(<<>>, <<"0", "B">>, <<"1", "0", "0", "0", "0">>),
           Literal(<<>>, <<"0", "o">>, <<"2", "0">>) }

NoValue == [ok |-> FALSE, v |-> 0, exc |-> ""]

InitValue ==
    /\ ir \in { [literal |-> l, result |-> NoValue] : l \in Literals }
    /\ pc = "text"
    /\ insts = <<>>
    /\ current = 0
    /\ internal = 0
    /\ optimize = TRUE
    /\ registers = EmptyRegisters
    /\ stack = <<>>
    /\ i = 1
    /\ stream = <<>>
    /\ err = ""
    /\ lastOp = ""
    /\ calls = 0
    /\ input = <<>>

\* parse_value(text) is called on the text of the literal
ParseValue ==
    /\ pc = "text"
    /\ LET r == parse_value(ir.literal.sign \o ir.literal.prefix \o ir.literal.digits)
       IN  /\ ir' = [ir EXCEPT !.result = [ok |-> r.ok, v |-> IF r.ok THEN r.v ELSE 0,
                                           exc |-> IF r.ok THEN "" ELSE r.exc]]
           /\ pc' = IF r.ok THEN "value" ELSE "fatal"
           /\ err' = IF r.ok THEN "" ELSE r.exc
    /\ lastOp' = "parse_value"
    /\ UNCHANGED <<insts, current, internal, optimize, registers, stack, i, stream, calls, input>>

ValueNext == ParseValue

SpecValue == InitValue /\ [][ValueNext]_vars

-----------------------------------------------------------------------------
(* src/compiler.py, lines 7-17 and 847-922: parse_expression. The line is   *)
(* cut into tokens, the tokens are ordered by the shunting yard into a      *)
(* queue, and the queue is built into an expression                         *)

MaxChain == 2

t_LSHIFT == <<"<", "<">>
t_RSHIFT == <<">", ">">>
t_AND == <<"A","N","D">>
t_OR == <<"O","R">>
t_XOR == <<"X","O","R">>
t_AS == <<"A","S">>
t_open == <<"(">>
t_close == <<")">>

\* the keys of _operators, in the order of the table
OperatorKeys ==
    << <<"+">>, <<"-">>, <<"*">>, <<"/">>, t_LSHIFT, t_RSHIFT, t_AND, t_OR, t_XOR >>

\* _operators: the precedence, the left associativity and the number of
\* arguments of every key
_operators ==
    [name \in Range(OperatorKeys) |-> [precedence |-> 0, left |-> FALSE, args |-> 2]]

CastExpression(type, expr) == [kind |-> "Cast", type |-> type, expr |-> expr]

\* the string ")" on the stack of expressions
Terminator == [kind |-> ")"]

OperatorChars == {"+", "-", "*", "/", "."}
SpaceChars == {" "}

\* the number of characters of the class that follow one another from place p
RECURSIVE RunLength(_, _, _)
RunLength(line, p, chars) ==
    IF p <= Len(line) /\ line[p] \in chars THEN 1 + RunLength(line, p + 1, chars) ELSE 0

\* the length of what the pattern of line 848 matches at place p, 0 when it
\* matches nothing there. Its alternatives are tried in order: a word with
\* dots and stars and an optional "(", a "-" and a number, white space, a run
\* of + - * / ., "(" and ")". The alternative AS never gets its turn: an A is
\* a word character
MatchLength(line, p) ==
    IF IsWordChar(line[p])
    THEN LET n == 1 + RunLength(line, p + 1, WordCharSet \cup {".", "*"})
         IN  IF p + n <= Len(line) /\ line[p + n] = "(" THEN n + 1 ELSE n
    ELSE IF line[p] = "-" /\ p < Len(line) /\ IsDigit(line[p + 1])
    THEN 2 + RunLength(line, p + 2, WordCharSet \cup {"."})
    ELSE IF line[p] \in SpaceChars THEN RunLength(line, p, SpaceChars)
    ELSE IF line[p] \in OperatorChars THEN RunLength(line, p, OperatorChars)
    ELSE IF line[p] \in {"(", ")"} THEN 1
    ELSE 0

\* re.findall: the matches from place p on, what matches nothing is skipped
RECURSIVE findall(_, _)
findall(line, p) ==
    IF p > Len(line) THEN <<>>
    ELSE LET n == MatchLength(line, p)
         IN  IF n = 0 THEN findall(line, p + 1)
             ELSE <<SubSeq(line, p, p + n - 1)>> \o findall(line, p + n)

isspace(token) == Len(token) > 0 /\ \A k \in DOMAIN token : token[k] \in SpaceChars

isOperator(name) == upper(name) = t_AS \/ upper(name) \in DOMAIN _operators

\* a call token: a name and "("
IsCallToken(token) == Len(token) > 1 /\ endswith(token, t_open)

\* the queue and the stack of the shunting yard, and the exception raised
Yard(que, stk, exc) == [queue |-> que, stack |-> stk, exc |-> exc]

Topmost(stk) == stk[Len(stk)]
Popped(stk) == SubSeq(stk, 1, Len(stk) - 1)

\* stack.pop() appended to the queue
Move(y) == [y EXCEPT !.queue = Append(@, Topmost(y.stack)), !.stack = Popped(@)]

\* lines 859-860: the operators above the token that bind tighter are moved
\* to the queue; getPrecedence looks the name up as it is written
RECURSIVE PopOperators(_, _)
PopOperators(y, token) ==
    IF Len(y.stack) = 0 \/ Topmost(y.stack) = t_open THEN y
    ELSE IF Topmost(y.stack) \notin DOMAIN _operators \/ token \notin DOMAIN _operators
    THEN [y EXCEPT !.exc = "KeyError"]
    ELSE IF \/ _operators[Topmost(y.stack)].precedence > _operators[token].precedence
            \/ /\ _operators[token].left
               /\ _operators[Topmost(y.stack)].precedence = _operators[token].precedence
    THEN PopOperators(Move(y), token)
    ELSE y

\* lines 870-872: what is above the "(" is moved to the queue
RECURSIVE PopToOpen(_)
PopToOpen(y) ==
    IF Len(y.stack) = 0 THEN [y EXCEPT !.exc = "IndexError"]
    ELSE IF Topmost(y.stack) = t_open THEN y
    ELSE PopToOpen(Move(y))

\* lines 856-879: one token in the shunting yard
ShuntingYard(y, token) ==
    IF isspace(token) THEN y
    ELSE IF isOperator(token)
    THEN LET popped == PopOperators(y, token)
         IN  IF popped.exc # "" THEN popped
             ELSE [popped EXCEPT !.stack = Append(@, token)]
    ELSE IF IsCallToken(token)
    THEN [y EXCEPT !.stack = @ \o <<token, t_open>>, !.queue = Append(@, t_close)]
    ELSE IF token = t_open THEN [y EXCEPT !.stack = Append(@, t_open)]
    ELSE IF token = t_close
    THEN IF Len(y.stack) = 0 THEN [y EXCEPT !.exc = "Exception: Missing \"(\"."]
         ELSE LET popped == PopToOpen(y)
                  opened == [popped EXCEPT !.stack = Popped(@)]
              IN  IF popped.exc # "" THEN popped
                  ELSE IF Len(opened.stack) > 0 /\ endswith(Topmost(opened.stack), t_open)
                  THEN Move(opened)
                  ELSE opened
    ELSE [y EXCEPT !.queue = Append(@, token)]

\* lines 881-884: what is left on the stack is moved to the queue
RECURSIVE Drained(_)
Drained(y) ==
    IF Len(y.stack) = 0 THEN y
    ELSE IF Topmost(y.stack) = t_open THEN [y EXCEPT !.stack = Popped(@), !.exc = "Exception: Missing \")\"."]
    ELSE Drained(Move(y))

\* the stack of expressions and the exception raised
Built(stk, exc) == [stack |-> stk, exc |-> exc]

\* lines 909-912: the arguments of a call are popped down to the ")"
RECURSIVE PopArguments(_, _)
PopArguments(b, args) ==
    IF Topmost(b.stack).kind = Terminator.kind THEN [stack |-> Popped(b.stack), exc |-> "", args |-> args]
    ELSE IF Len(b.stack) = 1
    THEN [stack |-> <<>>, exc |-> "Exception: Missing argument list terminator.", args |-> args]
    ELSE PopArguments([b EXCEPT !.stack = Popped(@)], <<Topmost(b.stack)>> \o args)

\* lines 886-919: one token of the queue is built
Build(b, token) ==
    IF token = t_close THEN [b EXCEPT !.stack = Append(@, Terminator)]
    ELSE IF isOperator(token)
    THEN IF upper(token) = t_AS
         THEN IF Len(b.stack) < 1
              THEN [b EXCEPT !.exc = "Exception: Expected 2 operands."]
              ELSE IF Len(b.stack) < 2
              THEN [b EXCEPT !.stack = <<>>, !.exc = "IndexError"]
              ELSE IF Topmost(b.stack).kind # "Variable"
              THEN [b EXCEPT !.stack = Popped(Popped(@)),
                             !.exc = "Exception: Expected type name for second operand of \"AS\"."]
              ELSE [b EXCEPT !.stack = Append(Popped(Popped(@)),
                                 CastExpression(Topmost(b.stack).target, Topmost(Popped(b.stack))))]
         ELSE IF token \notin DOMAIN _operators THEN [b EXCEPT !.exc = "KeyError"]
         ELSE IF _operators[token].args = 2
         THEN IF Len(b.stack) < 2
              THEN [b EXCEPT !.exc = "Exception: Expected 2 operands."]
              ELSE [b EXCEPT !.stack = Append(Popped(Popped(@)),
                                 BinaryOperandExpression(token, Topmost(Popped(b.stack)), Topmost(b.stack)))]
         ELSE b
    ELSE IF IsCallToken(token)
    THEN IF Len(b.stack) = 0 THEN [b EXCEPT !.exc = "Exception: Invalid call expression."]
         ELSE LET popped == PopArguments(b, <<>>)
              IN  IF popped.exc # "" THEN Built(popped.stack, popped.exc)
                  ELSE Built(Append(popped.stack,
                                    CallExpression(SubSeq(token, 1, Len(token) - 1), popped.args)),
                             "")
    ELSE LET value == parse_value(token)
         IN  [b EXCEPT !.stack = Append(@, IF value.ok
                                            THEN ConstantExpression(value.v, t_Integer)
                                            ELSE VariableExpression(token))]

\* the operands and the lines parse_expression is given: chains of up to
\* MaxChain operators of the table between operands, and lines with
\* parentheses, calls, casts and operators written otherwise
OperandTokens == { <<"x">>, <<"3">> }

RECURSIVE Chains(_)
Chains(n) ==
    IF n = 0 THEN { <<a>> : a \in OperandTokens }
    ELSE { <<a, OperatorKeys[k]>> \o chain :
             a \in OperandTokens, k \in DOMAIN OperatorKeys, chain \in Chains(n - 1) }

OtherLines ==
    { <<"f", "(", "x", ")", " ", "+", " ", "3">>,
      <<"(", "x", " ", "+", " ", "3", ")", " ", "*", " ", "x">>,
      <<"x", " ", "A", "S", " ", "T">>,
      <<"x", " ", "+", " ", "3", ")">>,
      <<"x", " ", "+", " ", "(", "3">>,
      <<"x", " ", "a", "n", "d", " ", "3">>,
      <<"x", "*", "3">>,
      <<"x", " ", "-", "3">> }

\* calls f(e1, ..., en) of up to MaxCallArguments arguments, an argument
\* being an operand or the sum of two operands
MaxCallArguments == 2

ArgumentChains ==
    { <<a>> : a \in OperandTokens } \cup
    { <<a, <<"+">>, b>> : a \in OperandTokens, b \in OperandTokens }

ArgumentLists == UNION { [1..n -> ArgumentChains] : n \in 1..MaxCallArguments }

RECURSIVE JoinArguments(_)
JoinArguments(args) ==
    IF Len(args) = 1 THEN join(args[1])
    ELSE join(args[1]) \o <<",", " ">> \o JoinArguments(Tail(args))

CallText(args) == <<"f", "(">> \o JoinArguments(args) \o <<")">>

CallLines == { CallText(args) : args \in ArgumentLists }

Lines ==
    { join(chain) : chain \in UNION { Chains(n) : n \in 1..MaxChain } }
        \cup OtherLines \cup CallLines

InitExpression ==
    /\ ir \in { [line |-> l, tokens |-> <<>>, k |-> 1, queue |-> <<>>, stack |-> <<>>,
                 built |-> <<>>] : l \in Lines }
    /\ pc = "line"
    /\ insts = <<>>
    /\ current = 0
    /\ internal = 0
    /\ optimize = TRUE
    /\ registers = EmptyRegisters
    /\ stack = <<>>
    /\ i = 1
    /\ stream = <<>>
    /\ err = ""
    /\ lastOp = ""
    /\ calls = 0
    /\ input = <<>>

\* line 848: the line is cut into tokens
Tokenize ==
    /\ pc = "line"
    /\ ir' = [ir EXCEPT !.tokens = findall(ir.line, 1)]
    /\ pc' = "tokens"
    /\ lastOp' = "parse_expression"
    /\ UNCHANGED <<insts, current, internal, optimize, registers, stack, i, stream, err,
                   calls, input>>

\* lines 856-879, one turn of the loop
ShuntToken ==
    /\ pc = "tokens"
    /\ ir.k <= Len(ir.tokens)
    /\ LET y == ShuntingYard(Yard(ir.queue, ir.stack, ""), ir.tokens[ir.k])
       IN  /\ ir' = [ir EXCEPT !.queue = y.queue, !.stack = y.stack, !.k = @ + 1]
           /\ err' = y.exc
           /\ pc' = IF y.exc # "" THEN "fatal" ELSE "tokens"
    /\ UNCHANGED <<insts, current, internal, optimize, registers, stack, i, stream, lastOp,
                   calls, input>>

\* lines 881-884
DrainStack ==
    /\ pc = "tokens"
    /\ ir.k > Len(ir.tokens)
    /\ LET y == Drained(Yard(ir.queue, ir.stack, ""))
       IN  /\ ir' = [ir EXCEPT !.queue = y.queue, !.stack = y.stack, !.k = 1]
           /\ err' = y.exc
           /\ pc' = IF y.exc # "" THEN "fatal" ELSE "queue"
    /\ UNCHANGED <<insts, current, internal, optimize, registers, stack, i, stream, lastOp,
                   calls, input>>

\* lines 886-919, one turn of the loop
BuildToken ==
    /\ pc = "queue"
    /\ ir.k <= Len(ir.queue)
    /\ LET b == Build(Built(ir.built, ""), ir.queue[ir.k])
       IN  /\ ir' = [ir EXCEPT !.built = b.stack, !.k = @ + 1]
           /\ err' = b.exc
           /\ pc' = IF b.exc # "" THEN "fatal" ELSE "queue"
    /\ UNCHANGED <<insts, current, internal, optimize, registers, stack, i, stream, lastOp,
                   calls, input>>

\* lines 921-922: the one expression left is returned
ReturnExpression ==
    /\ pc = "queue"
    /\ ir.k > Len(ir.queue)
    /\ err' = IF Len(ir.built) # 1 THEN "Exception: Expressions must produce one value." ELSE ""
    /\ pc' = IF Len(ir.built) # 1 THEN "fatal" ELSE "expression"
    /\ UNCHANGED <<insts, current, internal, optimize, registers, stack, i, stream, lastOp,
                   calls, input, ir>>

ExpressionNext == Tokenize \/ ShuntToken \/ DrainStack \/ BuildToken \/ ReturnExpression

SpecExpression == InitExpression /\ [][ExpressionNext]_vars

-----------------------------------------------------------------------------
(* Properties of commit and of the emitter operations *)

Mnemonic(inst) == upper(inst[1])

\* C1: whenever the stack pass of commit is at a ret instruction while the
\* virtual stack is not empty, that step aborts commit with the optimizer
\* error "Stack must be empty before returning."
RetWithNonEmptyStackAborts ==
    [][(/\ pc = "stack"
        /\ Mnemonic(insts[i]) = U_RET
        /\ stack # <<>>)
       => (/\ pc' = "fatal"
           /\ err' = "RuntimeError: Stack must be empty before returning.")]_vars

\* C2: committing [psh c; pop Ra; psh Ra; pop Rb] with optimization on
\* writes the single line "mov Rb c" and nothing else
S7OnlyMovRemains ==
    (pc = "done" /\ optimize /\ input \in S7Lists)
    => stream = << join(<<t_mov, input[4][2], input[1][2]>>) >>

\* the turns the pair and mono loop can still take: every turn lowers it
PairVariant == Len(insts) * (Len(input) + 2) + (Len(input) + 1 - i)

\* C3: commit's optimizer terminates: a pair or mono rule that fires leaves
\* fewer instructions than it found and a turn in which none fires moves to
\* the next index, so every turn lowers a natural number; the pair and mono
\* loop is left only when no rule fires at any index of the buffer; a pass
\* of the code loop either removes an instruction or ends the loop with the
\* buffer as it was
OptimizerTerminates ==
    /\ [][(pc = "pair" /\ pc' \in {"pair", "code"} /\ i' = 1)
          => Len(insts') < Len(insts)]_vars
    /\ [][(pc = "pair" /\ pc' \in {"pair", "code"} /\ i' # 1)
          => (insts' = insts /\ i' = i + 1)]_vars
    /\ [][(pc = "pair" /\ pc' \in {"pair", "code"})
          => (PairVariant' < PairVariant /\ PairVariant' >= 0)]_vars
    /\ [][(pc = "pair" /\ pc' = "code")
          => \A k \in 1..Len(insts') : ~PairDispatch(1, k, insts').fired]_vars
    /\ [][(pc = "code" /\ pc' = "code") => Len(insts') < Len(insts)]_vars
    /\ [][(pc = "code" /\ pc' = "write") => insts' = insts]_vars
    /\ [][(pc' \in {"stack", "pair"}) => i' \in 1..Len(insts')]_vars

\* C3 is witnessed by a finished commit in which rules have removed instructions
OptimizerTerminatesWitness ==
    pc = "done" /\ optimize /\ Len(input) = MaxLen /\ Len(insts) < Len(input)

\* the instructions of the buffer that are not nop, in buffer order
NonNop(ins) == SelectSeq(ins, LAMBDA inst : Mnemonic(inst) # U_NOP)

\* C4: after commit, with optimization on or off, no written line has the
\* mnemonic nop in any letter case, and the written lines are the non-nop
\* instructions of the buffer, once each, in buffer order
NoNopWritten ==
    pc = "done"
    => /\ \A k \in 1..Len(stream) : upper(FirstWord(stream[k])) # U_NOP
       /\ Len(stream) = Len(NonNop(insts))
       /\ \A k \in 1..Len(stream) : stream[k] = join(NonNop(insts)[k])

\* C4 is witnessed by a commit that wrote lines from a buffer holding an
\* upper-case and a lower-case nop
NoNopWrittenWitness ==
    /\ pc = "done"
    /\ Len(stream) > 0
    /\ \E k \in 1..Len(insts) : insts[k][1] = U_NOP
    /\ \E k \in 1..Len(insts) : insts[k][1] = t_nop

\* the signed operations C9 names
SignedMethods ==
    {"mul_s", "div_s", "rem_s", "cmp_lt_s", "cmp_gt_s", "cmp_le_s", "cmp_ge_s",
     "br_lt_s", "br_gt_s", "br_le_s", "br_ge_s"}

\* a request of a method in ops raises NotImplementedError and leaves the
\* buffer and the counters as they were
RaiseNotImplemented(ops) ==
    (pc = "emit" /\ lastOp' \in ops)
    => /\ pc' = "fatal"
       /\ err' = "NotImplementedError"
       /\ insts' = insts
       /\ current' = current
       /\ internal' = internal

-----------------------------------------------------------------------------
(* Properties of the structures *)

\* the structure that was asked about, and its fields
AskedFields == ir.modules[1].types[ir.query.decl].fields

\* the size of the k-th field of the structure that was asked about
AskedFieldSize(k) == GetSize(FieldType(ir.modules[1], AskedFields[k]).v, ir.modules[1], {})

\* the sum of the sizes of its first n fields
RECURSIVE AskedSizesSum(_)
AskedSizesSum(n) == IF n = 0 THEN 0 ELSE AskedSizesSum(n - 1) + AskedFieldSize(n).v

\* C8: for every resolved ComplexType, GetSize() is the sum of the sizes of
\* its fields, and for every field the offset given by GetField(name),
\* GetField(index) and GetFieldOffset(name) is the sum of the sizes of the
\* fields declared before it
SizesAndOffsetsAreSums ==
    pc = "asked"
    => /\ \A k \in 1..Len(AskedFields) : AskedFieldSize(k).ok
       /\ ir.query.op = "GetSize"
            => (ir.result.ok /\ ir.result.v = AskedSizesSum(Len(AskedFields)))
       /\ (ir.query.op = "GetFieldByIndex" /\ ir.query.index < Len(AskedFields))
            => (ir.result.ok /\ ir.result.v.offset = AskedSizesSum(ir.query.index))
       /\ ir.query.op = "GetFieldByName"
            => \A k \in 1..Len(AskedFields) :
                  AskedFields[k].name = ir.query.name
                  => (ir.result.ok /\ ir.result.v.offset = AskedSizesSum(k - 1))
       /\ ir.query.op = "GetFieldOffset"
            => \A k \in 1..Len(AskedFields) :
                  AskedFields[k].name = ir.query.name
                  => (ir.result.ok /\ ir.result.v = AskedSizesSum(k - 1))

-----------------------------------------------------------------------------
(* Properties of resolution and of the emission of statements *)

\* the names of variables an expression refers to
RECURSIVE NamesIn(_)
NamesIn(expr) ==
    CASE expr.kind = "Variable" -> {expr.target}
      [] expr.kind = "Binary" -> NamesIn(expr.exprA) \cup NamesIn(expr.exprB)
      [] expr.kind = "Call" -> UNION { NamesIn(expr.args[k]) : k \in 1..Len(expr.args) }
      [] OTHER -> {}

\* the names of variables a statement refers to: in a Return expression, an
\* operand, a call argument, an assignment target, an Asm Load or Save operand
References(st) ==
    CASE st.kind \in {"Return", "CallStatement"} -> NamesIn(st.expr)
      [] st.kind = "Assignment" -> {st.target} \cup NamesIn(st.expr)
      [] st.kind \in {"AsmLoad", "AsmStore"} -> {st.source}
      [] OTHER -> {}

\* the names a callable declares: its parameters and its locals
DeclaredNames(c) ==
    { c.args[k].name : k \in 1..Len(c.args) }
    \cup { LocalsOf(c.body)[k].name : k \in 1..Len(LocalsOf(c.body)) }

\* a reference of callable c whose path starts with no declared name
UndeclaredReferences(c) ==
    { n \in UNION { References(c.body[k]) : k \in 1..Len(c.body) } :
        splitAt(n, ".")[1] \notin DeclaredNames(c) }

HasUndeclared(m) == \E k \in 1..Len(m.code) : UndeclaredReferences(m.code[k]) # {}

\* the references of callable c that Callable.GetVariable binds to no
\* Variable
NotBound(c, m) ==
    { n \in UNION { References(c.body[k]) : k \in 1..Len(c.body) } :
        CallableGetVariable(c, m, n, GetLocalCount(c)) = Ok(NoVariable) }

\* C5: in a run whose input has a callable with a variable reference that
\* names neither a parameter, nor a local, nor a field path rooted at one,
\* Module.Resolve fails before any emission starts: the run never goes past
\* resolution and the buffer stays empty; and once every module is resolved,
\* every variable reference is bound to a Variable
UndeclaredNamesFailResolve ==
    /\ (\E k \in 1..Len(ir.modules) : HasUndeclared(ir.modules[k]))
       => /\ pc \in {"resolve", "fatal"}
          /\ lastOp \in {"", "Module.Resolve"}
          /\ insts = <<>>
    /\ ir.resolved = Len(ir.modules)
       => \A k \in 1..Len(ir.modules) :
             \A j \in 1..Len(ir.modules[k].code) :
                NotBound(ir.modules[k].code[j], ir.modules[k]) = {}

\* the names of the callables an expression calls
RECURSIVE CalledIn(_)
CalledIn(expr) ==
    CASE expr.kind = "Binary" -> CalledIn(expr.exprA) \cup CalledIn(expr.exprB)
      [] expr.kind = "Call" ->
            (IF IsAddressOf(expr.target) THEN {} ELSE {expr.target})
            \cup UNION { CalledIn(expr.args[k]) : k \in 1..Len(expr.args) }
      [] OTHER -> {}

\* the names of the callables the code of module m calls
CalledBy(m) ==
    UNION { CalledIn(m.code[k].body[j].expr) :
              <<k, j>> \in { <<k, j>> \in (1..Len(m.code)) \X (1..MaxBody + 1) :
                               /\ j <= Len(m.code[k].body)
                               /\ m.code[k].body[j].kind
                                    \in {"Return", "CallStatement", "Assignment"} } }

\* the names of the callables module m declares
DeclaredBy(m) == { m.code[k].name : k \in 1..Len(m.code) }

\* module k of the run calls a callable that only another module declares
CallsAnotherModule(k) ==
    \E n \in CalledBy(ir.modules[k]) \ DeclaredBy(ir.modules[k]) :
        \E j \in 1..Len(ir.modules) : n \in DeclaredBy(ir.modules[j])

\* C6: in a run with several modules every module is resolved before any
\* module is emitted, and the resolution of a module that calls a callable
\* declared only in another module does not fail with "Undefined function"
CrossModuleCallsResolve ==
    /\ (pc = "lower" \/ insts # <<>>) => ir.resolved = Len(ir.modules)
    /\ \A k \in 1..Len(ir.modules) :
          (/\ CallsAnotherModule(k)
           /\ pc = "fatal"
           /\ lastOp = "Module.Resolve"
           /\ ir.resolved = k - 1)
          => err # "Exception: Undefined function"

\* the statement emission has come to, and whether it is a Return
AtStatement == AtCallable.body[ir.at.step]
Returning ==
    /\ pc = "lower"
    /\ ir.at.step \in 1..Len(AtCallable.body)
    /\ AtStatement.kind = "Return"

\* the result type of its expression and the return type of its callable
ReturnedType == GetResultType(AtStatement.expr, AtCallable, AtModule, AllKnown(AtModule, AtCallable))
DeclaredType == GetReturnType(AtModule, AtCallable, AllKnown(AtModule, AtCallable))

\* equality of types as C10 has it: primitives by kind, pointers when what
\* they point to is equal
RECURSIVE SameType(_, _)
SameType(a, b) ==
    IF a.kind = "PointerType" /\ b.kind = "PointerType"
    THEN SameType(a.referenced, b.referenced)
    ELSE a.kind = b.kind /\ (a.kind \in {"SignedInteger", "UnsignedInteger"} \/ a = b)

\* the size of the parameter at place j of c, a ByRef parameter being a pointer
ParameterSize(c, m, j) ==
    IF c.args[j + 1].ref THEN 1
    ELSE GetSize(GetType(ResolverTypes(m), c.args[j + 1].type).v, m, {}).v

\* the sum of the sizes of the parameters of c from place j on
RECURSIVE ParametersSizeFrom(_, _, _)
ParametersSizeFrom(c, m, j) ==
    IF j >= Len(c.args) THEN 0
    ELSE ParameterSize(c, m, j) + ParametersSizeFrom(c, m, j + 1)

\* a store of size words into the return slot of c
StoreIntoReturnSlot(c, m, size) ==
    <<Op("ld_bp"), OpN("push", 2 + ParametersSizeFrom(c, m, 0)), Op("add"), OpN("st_ptr", size)>>

JumpToReturn(c) == <<OpS("jmp", <<"_", "_">> \o c.name \o <<"_", "_", "r", "e", "t", "u", "r", "n">>)>>

\* what the expression of the Return statement asks of the emitter
ReturnedExpression == EmitExpression(AtStatement.expr, AtCallable, AtModule)

\* the Return statement is fatal and appends nothing
ReturnRefused ==
    /\ pc' = "fatal"
    /\ err' = "Exception: Return value does not match function return type."
    /\ insts' = insts

\* C10 as stated: the emission of a Return statement whose expression's type
\* is not the return type of its callable is fatal and appends no
\* instruction; when the types are equal it emits the expression, a store
\* into the return slot and a jump to __<name>__return, in that order
ReturnStoresThenJumps ==
    [][(Returning /\ ReturnedType.ok /\ DeclaredType.ok)
       => IF ~SameType(ReturnedType.v, DeclaredType.v) THEN ReturnRefused
          ELSE /\ pc' # "fatal"
               /\ ir'.requests
                    = ReturnedExpression.requests
                      \o StoreIntoReturnSlot(AtCallable, AtModule, GetSize(ReturnedType.v, AtModule, {}).v)
                      \o JumpToReturn(AtCallable)]_vars

\* C10 amended: a Return statement whose expression has no type, a name in
\* it being bound to no variable, is fatal and appends nothing; one whose
\* expression's type is not the return type of its callable is fatal with
\* "Return value does not match function return type." and appends nothing;
\* when the types are equal and the emission of the expression raises, the
\* statement is fatal with what the expression emitted before left in the
\* buffer; else it emits the expression, then a store into the return slot
\* unless the type has size 0 (Void), then the jump to __<name>__return
ReturnChecksThenStoresSizedThenJumps ==
    /\ [][(Returning /\ ~ReturnedType.ok)
          => (pc' = "fatal" /\ err' = ReturnedType.exc /\ insts' = insts)]_vars
    /\ [][(Returning /\ ReturnedType.ok /\ DeclaredType.ok)
          => IF ~SameType(ReturnedType.v, DeclaredType.v) THEN ReturnRefused
             ELSE IF ReturnedExpression.exc # ""
             THEN /\ pc' = "fatal"
                  /\ err' = ReturnedExpression.exc
                  /\ ir'.requests = ReturnedExpression.requests
             ELSE /\ pc' # "fatal"
                  /\ ir'.requests
                       = ReturnedExpression.requests
                         \o (IF GetSize(ReturnedType.v, AtModule, {}).v = 0 THEN <<>>
                             ELSE StoreIntoReturnSlot(AtCallable, AtModule,
                                                      GetSize(ReturnedType.v, AtModule, {}).v))
                         \o JumpToReturn(AtCallable)]_vars

\* C10 is witnessed by a Return statement that emitted its expression, the
\* store into the return slot and the jump
ReturnChecksThenStoresSizedThenJumpsWitness ==
    /\ lastOp = "Statement.Emit"
    /\ err = ""
    /\ Len(ir.requests) >= 6
    /\ ir.requests[Len(ir.requests)].op = "jmp"
    /\ ir.requests[Len(ir.requests) - 1].op = "st_ptr"
    /\ ir.requests[Len(ir.requests) - 4].op = "ld_bp"

-----------------------------------------------------------------------------
(* Properties of the frame *)

\* the address of a parameter or of the return slot was asked for
AddressAsked ==
    /\ pc \in {"addressed", "fatal"}
    /\ lastOp \in {"Parameter.EmitLoadAddress", "ReturnVariable.EmitLoadAddress"}

\* the place from which the parameters lie between the variable asked for
\* and the base pointer: after a parameter, all of them for the return slot
FirstBelow == IF ir.var.kind = "Parameter" THEN ir.var.index + 1 ELSE 0

\* the offset C7 gives: 2 plus the sizes of the parameters from that place on
FrameOffset == 2 + ParametersSizeFrom(FrameCallable, ir.modules[1], FirstBelow)

\* the sizes of the parameters from that place on are defined: none of them
\* is a structure that holds itself, passed by value
SizesBelowDefined ==
    \A j \in FirstBelow..Len(FrameCallable.args) - 1 :
        \/ FrameCallable.args[j + 1].ref
        \/ GetSize(GetType(ResolverTypes(ir.modules[1]), FrameCallable.args[j + 1].type).v,
                   ir.modules[1], {}).ok

\* what EmitLoadAddress left on top of the operand stack
Pushed == Operands(<<>>, ir.requests)

\* C7 as stated: for a resolved callable the address pushed by EmitLoadAddress
\* of parameter pi is BP + 2 + the sizes of the parameters after pi, a ByRef
\* parameter counting 1, and the address pushed by EmitLoadAddress of the
\* return slot is BP + 2 + the sizes of all parameters
FrameAddressesFromBase ==
    AddressAsked => (pc = "addressed" /\ Pushed = <<FromBase(FrameOffset)>>)

\* C7 amended: when the sizes of the parameters after pi are defined,
\* EmitLoadAddress of a by-value parameter pi pushes BP + 2 + their sum, a
\* ByRef parameter counting 1, and EmitLoadAddress of a ByRef parameter pi
\* pushes the one word held at that address, the pointer it was passed;
\* EmitLoadAddress of the return slot pushes BP + 2 + the sizes of all
\* parameters when these are defined; when one of the sizes is not defined
\* EmitLoadAddress raises RecursionError and requests nothing
FrameAddressesAndReferences ==
    AddressAsked
    => IF ~SizesBelowDefined
       THEN pc = "fatal" /\ err = "RecursionError" /\ ir.requests = <<>> /\ insts = <<>>
       ELSE /\ pc = "addressed"
            /\ Pushed = IF ir.var.kind = "Parameter" /\ ir.var.ref
                        THEN <<Held(FromBase(FrameOffset), 1)>>
                        ELSE <<FromBase(FrameOffset)>>
            /\ (ir.var.kind = "Parameter" /\ ir.var.index = Len(FrameCallable.args) - 1)
               => FrameOffset = 2

\* C7 is witnessed by the address of the first of MaxParams parameters, passed
\* by value, the later ones being a structure of two words and a ByRef
\* parameter
FrameAddressesAndReferencesWitness ==
    /\ pc = "addressed"
    /\ lastOp = "Parameter.EmitLoadAddress"
    /\ Len(FrameCallable.args) = MaxParams
    /\ ir.var.index = 0
    /\ ~ir.var.ref
    /\ \E j \in 2..MaxParams : FrameCallable.args[j].type = t_S /\ ~FrameCallable.args[j].ref
    /\ \E j \in 2..MaxParams : FrameCallable.args[j].ref
    /\ Pushed = <<FromBase(2 + (MaxParams - 2) + 2)>>

-----------------------------------------------------------------------------
(* Properties of calls *)

\* the callee of the call, and the size of what it returns
Callee == ir.modules[1].code[1]
ReturnSize ==
    IF Callee.kind = "SubRoutine" THEN 0
    ELSE GetSize(GetType(ResolverTypes(ir.modules[1]), Callee.returnType).v, ir.modules[1], {}).v

\* what the arguments from the k-th on ask of the emitter, left to right
RECURSIVE ArgumentRequests(_)
ArgumentRequests(k) ==
    IF k > Len(TheCall.args) THEN <<>>
    ELSE EmitExpression(TheCall.args[k], CallingCallable, ir.modules[1]).requests
         \o ArgumentRequests(k + 1)

\* the sum of the sizes of the result types of the arguments from the k-th on
RECURSIVE ArgumentsTotal(_)
ArgumentsTotal(k) ==
    IF k > Len(TheCall.args) THEN 0
    ELSE GetSize(GetResultType(TheCall.args[k], CallingCallable, ir.modules[1],
                               AllKnown(ir.modules[1], CallingCallable)).v,
                 ir.modules[1], {}).v
         + ArgumentsTotal(k + 1)

\* add_sp(size), rem_sp(size) when size is greater than 0
WhenSized(op, size) == IF size > 0 THEN <<OpN(op, size)>> ELSE <<>>

\* the requests up to the call of the callee
UpToCall == WhenSized("add_sp", ReturnSize) \o ArgumentRequests(1) \o <<OpS("call", Callee.name)>>

\* C11 as stated: a call of a non-inline callee asks for add_sp(return size)
\* if that size is greater than 0, then the arguments left to right, then
\* call, then rem_sp(total size of the arguments); the stack grows by the
\* return size over a CallExpression and not at all over a CallStatement
CallReservesPushesCallsRemoves ==
    /\ (pc = "called" /\ lastOp = "CallExpression.Emit")
       => /\ ir.requests = UpToCall \o <<OpN("rem_sp", ArgumentsTotal(1))>>
          /\ StackGrowth(ir.requests) = ReturnSize
    /\ (pc = "called" /\ lastOp = "CallStatement.Emit")
       => StackGrowth(ir.requests) = 0

\* C11 amended: rem_sp(total size of the arguments) is asked for only if
\* that total is greater than 0, so a call without arguments ends with call;
\* a CallStatement asks for what its CallExpression asks and then for
\* rem_sp(return size) if that size is greater than 0; no emission of a call
\* whose names are declared is fatal
CallReservesPushesCallsRemovesSized ==
    /\ lastOp \in {"CallExpression.Emit", "CallStatement.Emit"} => pc = "called"
    /\ (pc = "called" /\ lastOp = "CallExpression.Emit")
       => /\ ir.requests = UpToCall \o WhenSized("rem_sp", ArgumentsTotal(1))
          /\ StackGrowth(ir.requests) = ReturnSize
    /\ (pc = "called" /\ lastOp = "CallStatement.Emit")
       => /\ ir.requests = UpToCall \o WhenSized("rem_sp", ArgumentsTotal(1))
                           \o WhenSized("rem_sp", ReturnSize)
          /\ StackGrowth(ir.requests) = 0

\* C11 is witnessed by a CallStatement of a Function As S with MaxArgs
\* arguments, the first a structure and the last a call
CallReservesPushesCallsRemovesSizedWitness ==
    /\ pc = "called"
    /\ lastOp = "CallStatement.Emit"
    /\ ReturnSize = 2
    /\ Len(TheCall.args) = MaxArgs
    /\ TheCall.args[1] = VariableExpression(t_s)
    /\ TheCall.args[MaxArgs].kind = "Call"
    /\ ir.requests[1] = OpN("add_sp", 2)
    /\ ir.requests[Len(ir.requests)] = OpN("rem_sp", 2)

-----------------------------------------------------------------------------
(* Properties of the emission of a callable *)

\* the requests for the locals of c from place k on, as C12 has them:
\* add_sp(size) for a local without an initial value, size pushes of the
\* value for one that has it
RECURSIVE LocalsReserved(_, _, _)
LocalsReserved(c, m, k) ==
    IF k >= Len(LocalsOf(c.body)) THEN <<>>
    ELSE LET local == LocalsOf(c.body)[k + 1]
             size == GetSize(GetType(ResolverTypes(m), local.type).v, m, {}).v
         IN  (IF local.initial = <<>> THEN <<OpN("add_sp", size)>>
              ELSE [j \in 1..size |-> OpN("push", local.initial[1])])
             \o LocalsReserved(c, m, k + 1)

\* C12: Callable.Emit asks, in order, for the label of the callable, the
\* push of the old BP, the copy of SP into BP, for each local in the order
\* of declaration add_sp(size) or size pushes of its initial value, then for
\* the statements of the body in source order, then for the label
\* __<name>__return, the restoring of SP from BP, the pop of the saved BP
\* and ret
CallableEmitsFrameBodyReturn ==
    /\ [][(pc = "lower" /\ ir.at.step = 0)
          => /\ pc' # "fatal"
             /\ lastOp' = "Callable.Emit"
             /\ ir'.at = [ir.at EXCEPT !.step = 1]
             /\ ir'.requests
                  = <<OpS("mark_label", AtCallable.name), Op("ld_bp"), Op("ld_sp"), Op("st_bp")>>
                    \o LocalsReserved(AtCallable, AtModule, 0)]_vars
    /\ [][(pc = "lower" /\ ir.at.step \in 1..Len(AtCallable.body) /\ pc' # "fatal")
          => /\ lastOp' = "Statement.Emit"
             /\ ir'.at = [ir.at EXCEPT !.step = @ + 1]
             /\ ir'.requests
                  = EmitStatement(AtCallable.body[ir.at.step], AtCallable, AtModule).requests]_vars
    /\ [][(pc = "lower" /\ ir.at.step = Len(AtCallable.body) + 1)
          => /\ pc' # "fatal"
             /\ lastOp' = "Callable.Exit"
             /\ ir'.requests
                  = <<OpS("mark_label", <<"_", "_">> \o AtCallable.name
                                        \o <<"_", "_", "r", "e", "t", "u", "r", "n">>),
                      Op("ld_bp"), Op("st_sp"), Op("st_bp"), Op("ret")>>]_vars

-----------------------------------------------------------------------------
(* Properties of the scan of the command line *)

IsFlag(token) == Len(token) > 0 /\ token[1] = "-"

\* the k-th token follows a pending flag
FollowsFlag(k) == k > 1 /\ IsFlag(ir.argv[k - 1])

\* the tokens up to the n-th that are neither flags nor values of flags
RECURSIVE PlainTokens(_)
PlainTokens(n) ==
    IF n = 0 THEN <<>>
    ELSE PlainTokens(n - 1)
         \o (IF ~IsFlag(ir.argv[n]) /\ ~FollowsFlag(n) THEN <<ir.argv[n]>> ELSE <<>>)

\* the places up to the n-th of the values that follow flag f
ValuePlaces(f, n) == { k \in 2..n : ir.argv[k - 1] = f /\ ~IsFlag(ir.argv[k]) }

\* the tokens scanned so far
Scanned == ir.k - 1

\* C13: the scan goes left to right; a token that starts with - becomes the
\* pending flag; a token that is no flag and follows a pending flag is the
\* value of that flag, known or not, and no input; every other token that
\* is no flag is an input, in order; -o is main.urcl unless given; without
\* inputs the run prints "No input files specified." and exits with code 1
\* before a file is parsed or the output is opened
ScanSeparatesFlagsValuesInputs ==
    /\ pc \in {"scan", "exit", "parse", "parsed"}
       => /\ ir.scan.inputs = PlainTokens(Scanned)
          /\ ir.scan.flags = SelectSeq(SubSeq(ir.argv, 1, Scanned), IsFlag)
          /\ ir.scan.flag = IF Scanned > 0 /\ IsFlag(ir.argv[Scanned])
                            THEN ir.argv[Scanned] ELSE <<>>
          /\ \A f \in DOMAIN ir.scan.args \cup {t_dash_o} :
                IF ValuePlaces(f, Scanned) = {}
                THEN f = t_dash_o /\ ir.scan.args[f] = t_main_urcl
                ELSE /\ IsFlag(f)
                     /\ \E k \in ValuePlaces(f, Scanned) :
                           /\ \A j \in ValuePlaces(f, Scanned) : j <= k
                           /\ ir.scan.args[f] = ir.argv[k]
          /\ \A k \in 2..Scanned :
                (IsFlag(ir.argv[k - 1]) /\ ~IsFlag(ir.argv[k])) => ir.argv[k - 1] \in DOMAIN ir.scan.args
    /\ pc = "exit"
       <=> (/\ Scanned = Len(ir.argv)
            /\ lastOp \in {"check"}
            /\ PlainTokens(Len(ir.argv)) = <<>>)
    /\ pc = "exit"
       => /\ ir.printed = "No input files specified."
          /\ ir.exit = 1
          /\ ir.parsed = 0
          /\ ~ir.opened
    /\ pc \in {"parse", "parsed"} => (ir.scan.inputs # <<>> /\ ir.exit = 0 /\ ir.printed = "")

\* C13 is witnessed by a run that ended for want of inputs after a flag took
\* the one name of the command line for its value, a second flag staying
\* without a value
ScanSeparatesFlagsValuesInputsWitness ==
    /\ pc = "exit"
    /\ Len(ir.argv) = MaxArgv
    /\ ir.argv[1] = <<"-", "x">>
    /\ ir.argv[2] = <<"a">>
    /\ ir.argv[MaxArgv] = t_dash_o
    /\ ir.scan.args[<<"-", "x">>] = <<"a">>
    /\ ir.scan.args[t_dash_o] = t_main_urcl

-----------------------------------------------------------------------------
(* Properties of parse_value *)

\* the digits of the bases, by value, in either case
DigitsUpper == <<"0","1","2","3","4","5","6","7","8","9","A","B","C","D","E","F">>
DigitsLower == <<"0","1","2","3","4","5","6","7","8","9","a","b","c","d","e","f">>

\* the value of a digit; 16 for what is no digit
DigitOf(c) ==
    LET places == { k \in 1..16 : c \in {DigitsUpper[k], DigitsLower[k]} }
    IN  IF places = {} THEN 16 ELSE (CHOOSE k \in places : TRUE) - 1

\* the number the digits denote in a base
RECURSIVE Denoted(_, _)
Denoted(digits, base) ==
    IF Len(digits) = 0 THEN 0
    ELSE Denoted(SubSeq(digits, 1, Len(digits) - 1), base) * base + DigitOf(digits[Len(digits)])

\* the base a prefix stands for
BaseOf(prefix) ==
    CASE prefix = <<>> -> 10
      [] upper(prefix) = <<"0", "X">> -> 16
      [] upper(prefix) = <<"0", "O">> -> 8
      [] upper(prefix) = <<"0", "B">> -> 2

\* the literal is one in its base: every digit is below the base, and a
\* decimal literal of several digits does not start with 0
WellFormed(l) ==
    /\ \A k \in 1..Len(l.digits) : DigitOf(l.digits[k]) < BaseOf(l.prefix)
    /\ (l.prefix = <<>> /\ Len(l.digits) > 1) => l.digits[1] # "0"

\* the signed integer a literal denotes
SignedValue(l) ==
    IF l.sign = <<"-">> THEN -Denoted(l.digits, BaseOf(l.prefix))
    ELSE Denoted(l.digits, BaseOf(l.prefix))

\* C14: for a literal in base 16, 8, 2 or 10 with the prefix 0x, 0o, 0b in
\* lower case, or no prefix, and an optional leading -, parse_value returns
\* the signed integer the literal denotes: -0x10 and -16 give -16, 0b10000
\* and 0o20 give 16
LowerCasePrefixesParse ==
    (/\ lastOp = "parse_value"
     /\ WellFormed(ir.literal)
     /\ ir.literal.prefix \in {<<>>, <<"0", "x">>, <<"0", "o">>, <<"0", "b">>})
    => (pc = "value" /\ ir.result.ok /\ ir.result.v = SignedValue(ir.literal))

-----------------------------------------------------------------------------
(* Properties of the output sink *)

\* every module is resolved and every callable of every module is emitted
EveryModuleEmitted ==
    /\ ir.resolved = Len(ir.modules)
    /\ ir.at.module > Len(ir.modules)

\* neither the pair and mono loop nor the code loop of commit has anything
\* left to do in the buffer
PassesCompleted ==
    /\ \A k \in 1..Len(insts) : ~PairDispatch(1, k, insts).fired
    /\ ~CodeDispatch(1, insts).fired

\* C15: in a run in which a fatal error is raised, in resolution, in
\* emission or in a pass of commit, no line is written to the output; a line
\* is written only once every module is resolved and emitted and every pass
\* of commit has completed without error, and the lines are then those of
\* the buffer the passes leave
NothingWrittenBeforeSuccess ==
    /\ pc = "fatal" => stream = <<>>
    /\ pc # "done" => stream = <<>>
    /\ stream # <<>> =>
          /\ err = ""
          /\ EveryModuleEmitted
          /\ PassesCompleted
          /\ stream = OutputLines(insts)

\* C15 is witnessed by a run that resolves and emits its module and fails in
\* the stack pass of commit, with instructions in the buffer and nothing
\* written
NothingWrittenBeforeSuccessWitness ==
    /\ pc = "fatal"
    /\ lastOp = "commit"
    /\ err # ""
    /\ EveryModuleEmitted
    /\ Len(insts) > 0
    /\ stream = <<>>

-----------------------------------------------------------------------------
(* Properties of the comparisons and of the branches on a boolean *)

\* the instruction at k places before the end of the buffer commit was given
FromEnd(k) == input[Len(input) - k]

\* the last request before commit was a comparison: the buffer commit was
\* given ends with the eight instructions of compare
EndsWithComparison ==
    /\ Len(input) >= 8
    /\ internal >= 2
    /\ \E op \in CompareMethods :
          SubSeq(input, Len(input) - 7, Len(input))
            = << <<t_pop, t_R2>>, <<t_pop, t_R1>>,
                 <<BranchMnemonic(op), _target_int(internal - 1, TRUE), t_R1, t_R2>>,
                 <<t_psh, <<"0">> >>,
                 <<t_jmp, _target_int(internal - 2, TRUE)>>,
                 <<_target_int(internal - 1, TRUE)>>,
                 <<t_psh, <<"1">> >>,
                 <<_target_int(internal - 2, TRUE)>> >>

\* in the lines written, the path that falls through the branch of the last
\* comparison ends with psh 0 and the jump to the end label, and the path
\* from the true label to the end label is psh 1
PushesZeroOrOne ==
    \E j \in 2..Len(stream) :
        /\ j + 3 = Len(stream)
        /\ stream[j - 1] = join(<<t_psh, <<"0">> >>)
        /\ stream[j] = join(<<t_jmp, _target_int(internal - 2, TRUE)>>)
        /\ stream[j + 1] = join(<<_target_int(internal - 1, TRUE)>>)
        /\ stream[j + 2] = join(<<t_psh, <<"1">> >>)
        /\ stream[j + 3] = join(<<_target_int(internal - 2, TRUE)>>)

\* C16: the output committed with the optimizer for a comparison pushes one
\* word on every path, 0 on the path that falls through the branch and 1 on
\* the path through the true label
ComparisonPushesOneWord ==
    (pc = "done" /\ optimize /\ EndsWithComparison) => PushesZeroOrOne

\* the values a word popped from the stack is drawn from
Words == 0..2

\* URCL: brz branches when its operand is zero, bnz when it is not
BranchTaken(mnemonic, value) ==
    IF mnemonic = t_brz THEN value = 0
    ELSE IF mnemonic = t_bnz THEN value # 0
    ELSE FALSE

\* the last two instructions of the buffer pop one value into R1 and branch
\* on R1 to the target, the branch being taken exactly for the values in taken
PopsAndBranchesFor(taken) ==
    /\ Len(insts) >= 2
    /\ insts[Len(insts) - 1] = <<t_pop, t_R1>>
    /\ LET b == insts[Len(insts)]
       IN  /\ Len(b) = 3
           /\ b[2] = _target(t_name)
           /\ b[3] = t_R1
           /\ \A value \in Words : BranchTaken(b[1], value) <=> value \in taken

\* C17: br_t(target) emits code that pops one value and branches to target
\* exactly when the value is not zero, br_f(target) code that pops one value
\* and branches to target exactly when the value is zero
BooleanBranchesAsNamed ==
    /\ (pc = "emit" /\ lastOp = "br_t") => PopsAndBranchesFor(Words \ {0})
    /\ (pc = "emit" /\ lastOp = "br_f") => PopsAndBranchesFor({0})

-----------------------------------------------------------------------------
(* Properties of parse_expression *)

\* the line is a chain a op1 b op2 c: the operands and operators of it
ChainOf(line) ==
    { chain \in Chains(2) : join(chain) = line }

\* the expression of an operand token
OperandExpression(token) ==
    IF parse_value(token).ok THEN ConstantExpression(parse_value(token).v, t_Integer)
    ELSE VariableExpression(token)

\* C18: for operators op1 and op2 of the table and operand tokens a, b and
\* c, parse_expression of a op1 b op2 c yields op1(a, op2(b, c))
OperatorsGroupToTheRight ==
    \A chain \in ChainOf(ir.line) :
        pc \in {"expression", "fatal"} =>
            /\ pc = "expression"
            /\ ir.built = << BinaryOperandExpression(chain[2], OperandExpression(chain[1]),
                                 BinaryOperandExpression(chain[4], OperandExpression(chain[3]),
                                                         OperandExpression(chain[5]))) >>

-----------------------------------------------------------------------------
(* Properties of the stack pass *)

\* the stack pass is at an instruction mnemonic SP source k, k a constant
AtStackPointerMove(mnemonic, source) ==
    /\ pc = "stack"
    /\ Len(insts[i]) = 4
    /\ upper(insts[i][1]) = mnemonic
    /\ insts[i][2] = t_SP
    /\ upper(insts[i][3]) = source
    /\ get_constant_operand(insts[i][4]).ok

\* the constant of the instruction the stack pass is at
MovedBy == get_constant_operand(insts[i][4]).v

\* the stack pass is at an instruction with the destination SP that is
\* neither add SP SP k, nor sub SP SP k, nor sub SP R3 k
AtOtherStackPointerWrite ==
    /\ pc = "stack"
    /\ Len(insts[i]) > 1
    /\ insts[i][2] = t_SP
    /\ ~is_readonly_reg_instruction(insts[i])
    /\ upper(insts[i][1]) \notin {U_PSH, U_POP, U_CAL}
    /\ ~AtStackPointerMove(U_ADD, t_SP)
    /\ ~AtStackPointerMove(U_SUB, t_SP)
    /\ ~AtStackPointerMove(U_SUB, t_R3)

\* the step of the stack pass leaves the virtual stack as given
StackBecomes(stk) == pc' # "fatal" /\ stack' = stk

\* the step of the stack pass is fatal
StackPassFails(exc) == pc' = "fatal" /\ err' = exc

\* what C19 says of one step of the stack pass
StackPointerStep ==
    /\ AtStackPointerMove(U_ADD, t_SP) =>
          IF MovedBy <= Len(stack)
          THEN StackBecomes(SubSeq(stack, 1, Len(stack) - MovedBy))
          ELSE StackPassFails("RuntimeError: Virtual stack underflow.")
    /\ AtStackPointerMove(U_SUB, t_SP) => StackBecomes(stack \o Nones(MovedBy))
    /\ AtStackPointerMove(U_SUB, t_R3) =>
          StackBecomes(IF Len(stack) > MovedBy + 1 THEN SubSeq(stack, 1, MovedBy + 1) ELSE stack)
    /\ AtOtherStackPointerWrite =>
          StackPassFails("RuntimeError: This type of stack modification is not allowed.")

\* C19: in every state the stack pass reaches, those in which SP is recorded
\* as BP included, add SP SP k removes k entries from the virtual stack, or
\* is fatal with a virtual stack underflow when there are fewer, sub SP SP k
\* appends k unknown entries, sub SP R3 k cuts the virtual stack to k + 1
\* entries, and any other instruction that writes SP is fatal
StackPointerMovesVirtualStack == [][StackPointerStep]_vars

\* the stack pass is at a psh
AtPush ==
    /\ pc = "stack"
    /\ Len(insts[i]) >= 2
    /\ upper(insts[i][1]) = U_PSH

\* the operand of the psh the stack pass is at
PushedOperand == insts[i][2]

\* the operand names a register
IsRegisterName(x) == startswith(upper(x), <<"R">>) \/ upper(x) = t_SP

\* the operand is a register whose recorded content is a known value
HoldsKnownValue(x) == IsRegisterName(x) /\ isinstance_int(_get_reg(registers, x))

\* the step appends the value to the virtual stack and replaces the psh by nop
PushFolded(value) ==
    /\ stack' = Append(stack, value)
    /\ insts' = [insts EXCEPT ![i] = <<t_nop>>]

\* the step appends the value to the virtual stack and keeps the psh
PushKept(value) ==
    /\ stack' = Append(stack, value)
    /\ insts' = insts

\* what C20 says of one step of the stack pass
PushStep ==
    AtPush =>
        IF parse_value(PushedOperand).ok THEN PushFolded(IntV(parse_value(PushedOperand).v))
        ELSE IF HoldsKnownValue(PushedOperand) THEN PushFolded(_get_reg(registers, PushedOperand))
        ELSE IF IsRegisterName(PushedOperand) THEN PushKept(_get_reg(registers, PushedOperand))
        ELSE PushKept(StrV(PushedOperand))

\* C20: in the stack pass, the psh of a constant literal, or of a register
\* whose recorded content is a known value, appends the value to the virtual
\* stack and is replaced by nop; any other psh appends the symbolic value and
\* is kept
PushOfKnownValueIsFolded == [][PushStep]_vars

-----------------------------------------------------------------------------
(* Properties of the pair, mono and code rules *)

\* the line is a label that begins with the prefix and that no instruction
\* of the buffer has as an operand
UnreferencedLabel(line, prefix, ins) ==
    /\ startswith(line[1], prefix)
    /\ \A k \in DOMAIN ins : \A j \in 2..Len(ins[k]) : ins[k][j] # line[1]

\* the buffer without its unreferenced labels that begin with the prefix
WithoutUnreferenced(prefix, ins) ==
    SelectSeq(ins, LAMBDA line : ~UnreferencedLabel(line, prefix, ins))

\* a turn of the code loop removes the unreferenced labels that begin with
\* the prefix and nothing else, and the buffer that is written has none
LabelsCollected(prefix) ==
    /\ (pc = "code" /\ pc' \in {"code", "write"}) => insts' = WithoutUnreferenced(prefix, insts)
    /\ (pc = "write" /\ optimize) => WithoutUnreferenced(prefix, insts) = insts

WordBits == 3
Modulus == 2 ^ WordBits
MachineWords == 0..(Modulus - 1)

\* the instruction the pair loop pairs with the one it is at; 0 when none
PairedWith == IF i <= Len(insts) THEN _next(insts, i, FALSE) ELSE 0

\* an add or a sub of three operands
IsAddOrSub(inst) == Len(inst) = 4 /\ upper(inst[1]) \in {U_ADD, U_SUB}

\* the pair loop is at an add or sub that is followed by an add or sub
AtAddSubPair ==
    /\ pc = "pair"
    /\ PairedWith # 0
    /\ IsAddOrSub(insts[i])
    /\ IsAddOrSub(insts[PairedWith])

\* ADD/SUB d, s, k1 followed by ADD/SUB d, d, k2, k1 and k2 constants
Repeated(first, second) ==
    /\ get_constant_operand(first[4]).ok
    /\ get_constant_operand(second[4]).ok
    /\ second[2] = first[2]
    /\ second[3] = first[2]

\* what the add or sub adds to its source
SignedConstant(inst) ==
    IF upper(inst[1]) = U_SUB THEN -get_constant_operand(inst[4]).v
    ELSE get_constant_operand(inst[4]).v

\* URCL: the word the destination of an add, sub or mov holds once it is
\* executed with the word v in its source
Executed(inst, v) ==
    IF upper(inst[1]) = U_MOV THEN v
    ELSE (v + SignedConstant(inst) + Modulus * Modulus) % Modulus

\* the instruction is the one C22 names for the pair: add d s v, sub d s -v
\* or mov d s by the sign of the sum v, and gives d the word the pair gives
ReplacesPair(merged, first, second) ==
    LET v == SignedConstant(first) + SignedConstant(second)
    IN  /\ merged = IF v > 0 THEN <<t_add, first[2], first[3], str(v)>>
                    ELSE IF v < 0 THEN <<t_sub, first[2], first[3], str(-v)>>
                    ELSE <<t_mov, first[2], first[3]>>
        /\ \A w \in MachineWords : Executed(merged, w) = Executed(second, Executed(first, w))

\* what C22 says of one turn of the pair loop
AddSubStep ==
    AtAddSubPair =>
        IF Repeated(insts[i], insts[PairedWith])
        THEN /\ pc' # "fatal"
             /\ Len(insts') = Len(insts) - 1
             /\ ReplacesPair(insts'[i], insts[i], insts[PairedWith])
             /\ insts' = RemoveAt([insts EXCEPT ![i] = insts'[i]], PairedWith)
        ELSE ~RepeatedAddAndSubtractOptimizer(i, PairedWith, insts).fired

\* C22: ADD/SUB d, s, k1 followed by ADD/SUB d, d, k2, k1 and k2 constants,
\* is replaced by the one instruction add d s v, sub d s -v or mov d s, by the
\* sign of the sum v, which gives d the word the pair gives, whatever s
\* holds and also when s is d; the rule does not fire when a third operand is
\* no constant or the source of the second instruction is not d
RepeatedAddSubMerged == [][AddSubStep]_vars

\* C22 is witnessed by the buffer written after add R1 R2 1 and sub R1 R1 2
\* were replaced by sub R1 R2 1
RepeatedAddSubMergedWitness ==
    /\ pc = "done"
    /\ input = << <<t_add, t_R1, t_R2, t_1>>, <<t_sub, t_R1, t_R1, t_2>> >>
    /\ insts = << <<t_sub, t_R1, t_R2, t_1>> >>
    /\ stream = << join(<<t_sub, t_R1, t_R2, t_1>>) >>

\* URCL: the instructions that write no register
WritesNoRegister(inst) ==
    \/ startswith(inst[1], <<".">>)
    \/ startswith(inst[1], <<"/","/">>)
    \/ upper(inst[1]) \in { U_JMP, U_CAL, U_PSH, U_STR, upper(t_bre), upper(t_bne),
                             upper(t_brl), upper(t_brg), upper(t_ble), upper(t_bge),
                             upper(t_brz), upper(t_bnz) }

\* the turn of the pair loop is one in which the overwritten-result rule fires
OverwrittenResultFires ==
    /\ pc = "pair"
    /\ i <= Len(insts)
    /\ TryPairOrMono("OverwrittenResultOptimizer", i, insts).fired
    /\ PairDispatch(1, i, insts).insts = TryPairOrMono("OverwrittenResultOptimizer", i, insts).insts

\* C23: the overwritten-result rule fires only on an instruction that writes
\* a register d and is followed by an instruction that writes d and does not
\* read it; it never fires when one of the two is a label, a comment, a
\* jump, a call, a push, a store or a conditional branch
OverwrittenResultOnlyOnWrites ==
    OverwrittenResultFires =>
        /\ ~WritesNoRegister(insts[i])
        /\ ~WritesNoRegister(insts[PairedWith])
        /\ insts[PairedWith][2] = insts[i][2]
        /\ \A j \in 3..Len(insts[PairedWith]) : insts[PairedWith][j] # insts[i][2]

\* the instruction at k is a psh and the next instruction, labels, comments
\* and nops apart, is a pop
PushThenPop(ins, k) ==
    /\ upper(ins[k][1]) = U_PSH
    /\ _next(ins, k, FALSE) # 0
    /\ upper(ins[_next(ins, k, FALSE)][1]) = U_POP

\* the lines of the output that are instructions: no label and no comment
RECURSIVE InstructionsOf(_)
InstructionsOf(lines) ==
    IF Len(lines) = 0 THEN <<>>
    ELSE IF lines[1][1] \in {".", "/"} THEN InstructionsOf(Tail(lines))
    ELSE <<lines[1]>> \o InstructionsOf(Tail(lines))

\* the line is an instruction of the mnemonic
IsLineOf(line, mnemonic) ==
    /\ Len(line) >= Len(mnemonic)
    /\ upper(SubSeq(line, 1, Len(mnemonic))) = mnemonic
    /\ (Len(line) > Len(mnemonic) => line[Len(mnemonic) + 1] = " ")

\* C24: a turn of the pair loop at a psh x whose next instruction is a pop y
\* replaces the pair by mov y x, or by nothing when x is y, and in the output
\* of commit with the optimizer no psh is followed, labels apart, by a pop
NoPushThenPopSurvives ==
    /\ (pc = "done" /\ optimize) =>
          LET out == InstructionsOf(stream)
          IN  \A k \in 1..(Len(out) - 1) :
                  ~(IsLineOf(out[k], U_PSH) /\ IsLineOf(out[k + 1], U_POP))
    /\ (pc = "pair" /\ i <= Len(insts) /\ PushThenPop(insts, i)) =>
          LET x == insts[i][2]
              y == insts[_next(insts, i, FALSE)][2]
              after == PairDispatch(1, i, insts).insts
          IN  after = IF x = y THEN RemoveAt(RemoveAt(insts, _next(insts, i, FALSE)), i)
                      ELSE RemoveAt([insts EXCEPT ![_next(insts, i, FALSE)] = <<t_mov, y, x>>], i)

\* C24 is witnessed by the output, a label and mov R2 R1, of a commit of
\* psh R1, the label and pop R2
NoPushThenPopSurvivesWitness ==
    /\ pc = "done"
    /\ optimize
    /\ input = << <<t_psh, t_R1>>, <<t_f>>, <<t_pop, t_R2>> >>
    /\ stream = << t_f, join(<<t_mov, t_R2, t_R1>>) >>

-----------------------------------------------------------------------------
(* Properties of begin_instruction, end_instruction and the label counters  *)

\* the instruction is the line of the label of offset n
IsOffsetLabel(inst, n) == inst = <<_target_int(n, FALSE)>>

\* the positions of the buffer that hold the label of an offset
OffsetLabelPositions(ins) ==
    {k \in DOMAIN ins : \E n \in 0..MaxOps : IsOffsetLabel(ins[k], n)}

\* the offset the label at position k names
OffsetAt(ins, k) == CHOOSE n \in 0..MaxOps : IsOffsetLabel(ins[k], n)

\* the positions of the buffer that hold the line of an internal label
InternalLabelPositions(ins) ==
    {k \in DOMAIN ins :
        \E n \in 0..(2 * MaxOps) : ins[k] = <<_target_int(n, TRUE)>>}

\* the methods that call neither begin_instruction nor end_instruction
UnbracketedMethods == {"comment", "mark_label"}

\* a method that calls begin_instruction and end_instruction has completed
BracketedStep ==
    /\ pc = "emit"
    /\ pc' = "emit"
    /\ calls' = calls + 1
    /\ lastOp' \notin UnbracketedMethods

\* what a completed method that brackets leaves: the buffer grown by the
\* label of the counter's value and by instructions that are not offset
\* labels, and the counter one higher
BracketedEffect ==
    /\ Len(insts') > Len(insts)
    /\ SubSeq(insts', 1, Len(insts)) = insts
    /\ IsOffsetLabel(insts'[Len(insts) + 1], current)
    /\ OffsetLabelPositions(insts') = OffsetLabelPositions(insts) \cup {Len(insts) + 1}
    /\ current' = current + 1
    /\ internal' >= internal

\* a named label has been marked
MarkLabelStep == pc = "emit" /\ lastOp' = "mark_label" /\ calls' = calls + 1

\* the offset labels of the buffer increase along the buffer, and no two
\* lines of internal labels are the same
LabelsDistinct ==
    /\ \A a, b \in OffsetLabelPositions(insts) :
           a < b => OffsetAt(insts, a) < OffsetAt(insts, b)
    /\ \A a, b \in InternalLabelPositions(insts) : a # b => insts[a] # insts[b]

\* C25: every completed high-level op appends the label of the counter's
\* value and then its own instructions, no other offset label among them,
\* and increases the counter by 1; marking a named label changes neither
\* counter; the offset labels of the buffer are pairwise distinct and
\* increase along the buffer, and the internal labels are pairwise distinct
OffsetLabelsBracketEveryOp ==
    /\ [][(BracketedStep => BracketedEffect) /\ current' >= current]_vars
    /\ [][MarkLabelStep => (current' = current /\ internal' = internal)]_vars
    /\ [](pc = "emit" => LabelsDistinct)

-----------------------------------------------------------------------------
(* The instructions of ld_ptr and st_ptr executed. A URCL machine of        *)
(* WordBits-bit words: a memory of Modulus words, the registers R1 and R2,  *)
(* and a stack whose top is the head of a sequence. The program is the      *)
(* buffer an emitter holds after push(A), ld_ptr(size), push(B) and         *)
(* st_ptr(size); ir holds the machine, i the instruction executed next      *)

MaxSize == 3

U_LOD == <<"L","O","D">>

\* the memories a run starts with: no two words alike, or all words alike
Memories ==
    {[a \in MachineWords |-> (a * k + c) % Modulus] : k \in {0, 1, 3}, c \in {0, 5}}

\* the stacks a run starts with
InitialStacks == {<<>>, <<6>>}

\* the buffer after the four requests
CopyProgram(A, size, B) ==
    ServeAll(Emitter(<<>>, 0, 0),
             << Request("push", A, <<>>, <<>>), Request("ld_ptr", size, <<>>, <<>>),
                Request("push", B, <<>>, <<>>), Request("st_ptr", size, <<>>, <<>>) >>).insts

Machine(mem, regs, stk, A, size, B) ==
    [phase |-> "machine", memory |-> mem, R |-> regs, stk |-> stk,
     A |-> A, size |-> size, B |-> B, before |-> mem, below |-> stk]

InitMachine ==
    /\ \E A \in MachineWords, B \in MachineWords, size \in 1..MaxSize :
        \E mem \in Memories, stk \in InitialStacks :
            /\ insts = CopyProgram(A, size, B)
            /\ ir = Machine(mem, [r \in {t_R1, t_R2} |-> 0], stk, A, size, B)
    /\ current = 4
    /\ internal = 0
    /\ optimize = FALSE
    /\ registers = EmptyRegisters
    /\ stack = <<>>
    /\ i = 1
    /\ stream = <<>>
    /\ pc = "run"
    /\ err = ""
    /\ lastOp = ""
    /\ calls = 4
    /\ input = <<>>

\* the word an operand stands for: a register's word, or the immediate
OperandWord(x, regs) ==
    IF x \in DOMAIN regs THEN regs[x] ELSE IntOfText(x).v % Modulus

\* the machine is at an instruction of the mnemonic
At(mnemonic) ==
    /\ pc = "run"
    /\ i <= Len(insts)
    /\ insts[i][1][1] # "."
    /\ upper(insts[i][1]) = mnemonic

\* the machine goes on to the next instruction with the machine m
Step(m) ==
    /\ ir' = m
    /\ i' = i + 1
    /\ lastOp' = join(insts[i])
    /\ UNCHANGED <<insts, current, internal, optimize, registers, stack, stream,
                   pc, err, calls, input>>

\* a label is no instruction
ExecLabel ==
    /\ pc = "run"
    /\ i <= Len(insts)
    /\ insts[i][1][1] = "."
    /\ Step(ir)

\* psh x
ExecPsh ==
    /\ At(U_PSH)
    /\ Step([ir EXCEPT !.stk = <<OperandWord(insts[i][2], ir.R)>> \o @])

\* pop r
ExecPop ==
    /\ At(U_POP)
    /\ Len(ir.stk) > 0
    /\ Step([ir EXCEPT !.R[insts[i][2]] = Head(ir.stk), !.stk = Tail(@)])

\* add d a b and sub d a b
ExecAddSub ==
    /\ At(U_ADD) \/ At(U_SUB)
    /\ LET a == OperandWord(insts[i][3], ir.R)
           b == OperandWord(insts[i][4], ir.R)
       IN  Step([ir EXCEPT !.R[insts[i][2]] =
                    IF upper(insts[i][1]) = U_ADD THEN (a + b) % Modulus
                    ELSE (a - b + Modulus) % Modulus])

\* lod d a
ExecLod ==
    /\ At(U_LOD)
    /\ Step([ir EXCEPT !.R[insts[i][2]] = ir.memory[OperandWord(insts[i][3], ir.R)]])

\* str a b
ExecStr ==
    /\ At(U_STR)
    /\ Step([ir EXCEPT !.memory[OperandWord(insts[i][2], ir.R)] =
                           OperandWord(insts[i][3], ir.R)])

\* the end of the buffer
Halt ==
    /\ pc = "run"
    /\ i > Len(insts)
    /\ pc' = "halted"
    /\ UNCHANGED <<insts, current, internal, optimize, registers, stack, i, stream,
                   err, lastOp, calls, input, ir>>

MachineNext ==
    \/ ExecLabel \/ ExecPsh \/ ExecPop \/ ExecAddSub \/ ExecLod \/ ExecStr \/ Halt

SpecMachine == InitMachine /\ [][MachineNext]_vars

(* Properties of ld_ptr and st_ptr                                          *)

\* the word of the memory mem at the address a + k
WordAt(mem, a, k) == mem[(a + k) % Modulus]

\* the machine is at the label of the offset n
AtOffset(n) == pc = "run" /\ i <= Len(insts) /\ IsOffsetLabel(insts[i], n)

\* C26: once the instructions of ld_ptr(size) are executed on the address A,
\* the words M[A], ..., M[A+size-1] lie on the stack with M[A] on top; once
\* the push of B and the instructions of st_ptr(size) are executed too, the
\* word at B+k is the word ld_ptr read at A+k for every k < size, and the
\* stack is as deep as before the address A was pushed
LoadThenStoreCopies ==
    /\ AtOffset(2) =>
          /\ Len(ir.stk) = ir.size + Len(ir.below)
          /\ \A k \in 0..(ir.size - 1) : ir.stk[k + 1] = WordAt(ir.before, ir.A, k)
          /\ ir.memory = ir.before
    /\ pc = "halted" =>
          /\ \A k \in 0..(ir.size - 1) :
                 WordAt(ir.memory, ir.B, k) = WordAt(ir.before, ir.A, k)
          /\ Len(ir.stk) = Len(ir.below)

\* C26 is witnessed by a copy of MaxSize different words to another place
LoadThenStoreCopiesWitness ==
    /\ pc = "halted"
    /\ ir.size = MaxSize
    /\ ir.A = 1
    /\ ir.B = 4
    /\ ir.memory # ir.before
    /\ \A k \in 0..(MaxSize - 1) : WordAt(ir.memory, ir.B, k) = WordAt(ir.before, ir.A, k)

-----------------------------------------------------------------------------
(* src/compiler.py, lines 817-845: collect_blocks. The lines of a module    *)
(* are grouped into a tree: a leaf is a line, a block the list of its       *)
(* leaves and blocks. The recursion is a stack of frames, one per call: the *)
(* index start of the call's first line, the call's i, blockName, result    *)
(* and isRootBlock. ir holds the lines, the frames and what was returned    *)

MaxLines == 3

\* the keys of _blocks in the order they are inserted (lines 1016-1022)
_blocks ==
    << <<"S","U","B">>, <<"F","U","N","C","T","I","O","N">>,
       <<"S","T","R","U","C","T","U","R","E">>, <<"I","F">>,
       <<"W","H","I","L","E">>, <<"F","O","R">>, <<"T","R","Y">> >>

\* str.strip()
RECURSIVE lstrip(_)
lstrip(s) == IF Len(s) > 0 /\ s[1] \in SpaceChars THEN lstrip(Tail(s)) ELSE s

RECURSIVE rstrip(_)
rstrip(s) ==
    IF Len(s) > 0 /\ s[Len(s)] \in SpaceChars THEN rstrip(SubSeq(s, 1, Len(s) - 1)) ELSE s

strip(s) == rstrip(lstrip(s))

\* group 1 of re.match(r"^(\w+)", s), empty when there is no match
RECURSIVE LeadingWord(_)
LeadingWord(s) ==
    IF Len(s) > 0 /\ IsWordChar(s[1]) THEN <<s[1]>> \o LeadingWord(Tail(s)) ELSE <<>>

\* re.search("^END\\s+" + blockName + "$", line.strip(), re.IGNORECASE)
IsFooter(line, blockName) ==
    LET u == upper(strip(line))
        rest == SubSeq(u, 4, Len(u))
    IN  /\ startswith(u, <<"E","N","D">>)
        /\ Len(rest) > 0
        /\ rest[1] \in SpaceChars
        /\ lstrip(rest) = upper(blockName)

\* lines[i].upper().strip().startswith(key) for a key of _blocks
StartsBlock(line) ==
    \E k \in DOMAIN _blocks : startswith(strip(upper(line)), _blocks[k])

Leaf(line) == [block |-> FALSE, line |-> line, items |-> <<>>]

Block(items) == [block |-> TRUE, line |-> <<>>, items |-> items]

Frame(start, isRootBlock) ==
    [start |-> start, i |-> 0, blockName |-> <<>>, result |-> <<>>,
     isRootBlock |-> isRootBlock]

\* the lines of the modules read
SourceLines ==
    { <<"S","U","B"," ","F","(",")">>, <<"E","N","D"," ","S","U","B">>,
      <<"I","f"," ","x">>, <<"e","n","d"," "," ","i","f">>,
      <<"x"," ","="," ","1">>, <<"I","f","f","y"," ","="," ","1">>,
      <<"E","N","D"," ","I","F","F","Y">> }

RECURSIVE LineLists(_)
LineLists(n) ==
    IF n = 0 THEN {<<>>}
    ELSE LineLists(n - 1) \cup
         {Append(l, x) : l \in {l \in LineLists(n - 1) : Len(l) = n - 1}, x \in SourceLines}

InitBlocks ==
    /\ \E lines \in LineLists(MaxLines) :
          ir = [phase |-> "blocks", lines |-> lines, frames |-> <<Frame(1, TRUE)>>,
                tree |-> <<>>, missing |-> <<>>]
    /\ insts = <<>>
    /\ current = 0
    /\ internal = 0
    /\ optimize = TRUE
    /\ registers = EmptyRegisters
    /\ stack = <<>>
    /\ i = 1
    /\ stream = <<>>
    /\ pc = "blocks"
    /\ err = ""
    /\ lastOp = ""
    /\ calls = 0
    /\ input = <<>>

\* the frame of the call that runs
TopFrame == ir.frames[Len(ir.frames)]

\* while i < len(lines), for the lines[start:] the call was given
InLoop == pc = "blocks" /\ TopFrame.i < Len(ir.lines) - TopFrame.start + 1

\* lines[i] of the call that runs
CurrentLine == ir.lines[TopFrame.start + TopFrame.i]

\* i == 0 and not isRootBlock
AtHeader == TopFrame.i = 0 /\ ~TopFrame.isRootBlock

\* return result, i of a call that is not the root: the caller appends the
\* block and adds the length to its i
Returned(frames, f) ==
    LET callers == SubSeq(frames, 1, Len(frames) - 1)
        caller == callers[Len(callers)]
    IN  [callers EXCEPT ![Len(callers)] =
            [caller EXCEPT !.result = Append(@, Block(f.result)), !.i = @ + f.i]]

\* lines 834-840: the line is appended, and the call returns at its footer
LeafAppended(frames, f, line) ==
    LET g == [f EXCEPT !.result = Append(@, Leaf(line)), !.i = @ + 1]
    IN  IF ~g.isRootBlock /\ IsFooter(line, g.blockName) THEN Returned(frames, g)
        ELSE [frames EXCEPT ![Len(frames)] = g]

BlocksStep(frames, op) ==
    /\ ir' = [ir EXCEPT !.frames = frames]
    /\ lastOp' = op
    /\ UNCHANGED <<insts, current, internal, optimize, registers, stack, i, stream,
                   pc, err, calls, input>>

BlocksFatal(message, blockName) ==
    /\ pc' = "fatal"
    /\ err' = message
    /\ ir' = [ir EXCEPT !.missing = blockName]
    /\ lastOp' = "raise"
    /\ UNCHANGED <<insts, current, internal, optimize, registers, stack, i, stream,
                   calls, input>>

\* lines 823-826 and 834-840: the first line of a block names the block
Header ==
    /\ InLoop
    /\ AtHeader
    /\ LET header == LeadingWord(strip(CurrentLine))
       IN  IF Len(header) = 0 THEN BlocksFatal("Exception: Invalid block header.", <<>>)
           ELSE BlocksStep(LeafAppended(ir.frames,
                                        [TopFrame EXCEPT !.blockName = upper(header)],
                                        CurrentLine), "header")

\* lines 828-833: collect_blocks(lines[i:]) is called
OpenBlock ==
    /\ InLoop
    /\ ~AtHeader
    /\ StartsBlock(CurrentLine)
    /\ BlocksStep(Append(ir.frames, Frame(TopFrame.start + TopFrame.i, FALSE)), "open")

\* lines 834-840 for a line that does not end the block
AppendLeaf ==
    /\ InLoop
    /\ ~AtHeader
    /\ ~StartsBlock(CurrentLine)
    /\ TopFrame.isRootBlock \/ ~IsFooter(CurrentLine, TopFrame.blockName)
    /\ BlocksStep(LeafAppended(ir.frames, TopFrame, CurrentLine), "leaf")

\* lines 834-840 for the footer of the block
CloseBlock ==
    /\ InLoop
    /\ ~AtHeader
    /\ ~StartsBlock(CurrentLine)
    /\ ~TopFrame.isRootBlock
    /\ IsFooter(CurrentLine, TopFrame.blockName)
    /\ BlocksStep(LeafAppended(ir.frames, TopFrame, CurrentLine), "footer")

\* lines 841-842: the root block returns at the end of the lines
ReturnRoot ==
    /\ pc = "blocks"
    /\ ~InLoop
    /\ TopFrame.isRootBlock
    /\ pc' = "collected"
    /\ ir' = [ir EXCEPT !.tree = TopFrame.result]
    /\ lastOp' = "return"
    /\ UNCHANGED <<insts, current, internal, optimize, registers, stack, i, stream,
                   err, calls, input>>

\* lines 843-844: another block is at the end of the lines
MissingEnd ==
    /\ pc = "blocks"
    /\ ~InLoop
    /\ ~TopFrame.isRootBlock
    /\ BlocksFatal("Exception: block is missing END", TopFrame.blockName)

BlocksNext ==
    \/ Header \/ OpenBlock \/ AppendLeaf \/ CloseBlock \/ ReturnRoot \/ MissingEnd

SpecBlocks == InitBlocks /\ [][BlocksNext]_vars

(* Properties of collect_blocks                                             *)

\* the keywords that open a block
BlockKeywords == {_blocks[k] : k \in DOMAIN _blocks}

\* the first word of the line is, case apart, a keyword
FirstWordIsKeyword(line) == upper(LeadingWord(strip(line))) \in BlockKeywords

\* a line that is not the first of its block is looked at
LineExamined == InLoop /\ ~AtHeader

\* C27: a nested block is opened for a line exactly when the first word of
\* the line is, case apart, one of SUB, FUNCTION, STRUCTURE, IF, WHILE, FOR
\* and TRY, every other line is a leaf of the block it is in, and the fatal
\* error is that of a block at the end of the lines, named with its keyword
BlockOpensAtKeywordOnly ==
    /\ [][LineExamined =>
            /\ (Len(ir'.frames) > Len(ir.frames)) <=> FirstWordIsKeyword(CurrentLine)
            /\ ~FirstWordIsKeyword(CurrentLine) =>
                  ir'.frames = LeafAppended(ir.frames, TopFrame, CurrentLine)]_vars
    /\ [][(pc = "blocks" /\ pc' = "fatal") =>
            /\ ~InLoop
            /\ ~TopFrame.isRootBlock
            /\ ir'.missing = TopFrame.blockName
            /\ ir'.missing \in BlockKeywords]_vars

-----------------------------------------------------------------------------
(* commit on buffers of pushes and pops of constants and registers, with    *)
(* the instructions that read the registers, a call, a return and a label   *)

MaxFold == 4

FoldInstructions ==
    { <<t_psh, t_3>>, <<t_psh, t_R1>>, <<t_pop, t_R1>>, <<t_pop, t_R2>>,
      <<t_mov, t_R2, t_R1>>, <<t_str, t_R1, t_R2>>,
      <<t_cal, t_f>>, <<t_ret>>, <<t_f>> }

FoldLists == UNION {[1..n -> FoldInstructions] : n \in 1..MaxFold}

InitFold ==
    /\ insts \in FoldLists
    /\ current = 0
    /\ internal = 0
    /\ optimize = TRUE
    /\ registers = EmptyRegisters
    /\ stack = <<>>
    /\ i = 1
    /\ stream = <<>>
    /\ pc = "emit"
    /\ err = ""
    /\ lastOp = ""
    /\ calls = 0
    /\ input = <<>>
    /\ ir = NoIR

SpecFold == InitFold /\ [][CommitNext]_vars

(* Properties of the optimizer on pushes and pops                           *)

\* the instructions are straight-line code, no label, call or return among
\* them, in which every pop follows a push of its own and no push is left
RECURSIVE BalancedFrom(_, _)
BalancedFrom(ins, depth) ==
    IF Len(ins) = 0 THEN depth = 0
    ELSE IF upper(ins[1][1]) = U_PSH THEN BalancedFrom(Tail(ins), depth + 1)
    ELSE IF upper(ins[1][1]) = U_POP THEN depth > 0 /\ BalancedFrom(Tail(ins), depth - 1)
    ELSE /\ upper(ins[1][1]) \in {U_MOV, U_STR}
         /\ BalancedFrom(Tail(ins), depth)

\* the number of lines of the output that are instructions of the mnemonic
RECURSIVE CountLines(_, _)
CountLines(lines, mnemonic) ==
    IF Len(lines) = 0 THEN 0
    ELSE (IF IsLineOf(lines[1], mnemonic) THEN 1 ELSE 0) + CountLines(Tail(lines), mnemonic)

\* C28: the output of commit with the optimizer for a balanced straight-line
\* buffer has as many psh as pop: a pop is removed or made a nop only with
\* the psh that supplied its value, and a psh only with its pop
BalancedInputBalancedOutput ==
    (pc = "done" /\ optimize /\ BalancedFrom(input, 0)) =>
        CountLines(stream, U_PSH) = CountLines(stream, U_POP)

\* the line has the operand among its words
Mentions(line, operand) == \E k \in 2..Len(split(line)) : split(line)[k] = operand

\* the buffer begins with psh 3 and pop R1, which the stack pass makes nops,
\* and holds no other instruction that writes R1
ConstantPoppedInto(ins) ==
    /\ Len(ins) > 2
    /\ ins[1] = <<t_psh, t_3>>
    /\ ins[2] = <<t_pop, t_R1>>
    /\ \A k \in 3..Len(ins) : ins[k] # <<t_pop, t_R1>>

\* C29: when pop r is made a nop because the value popped is the constant
\* c, every later instruction that reads r before r is written again, a
\* psh r and a read after a cal, a ret or a label among them, has c in the
\* place of r in the output of commit
KnownConstantReplacesReads ==
    (pc = "done" /\ optimize /\ ConstantPoppedInto(input)) =>
        \A k \in DOMAIN stream : ~Mentions(stream[k], t_R1)

-----------------------------------------------------------------------------
(* Properties of parse_expression on calls                                  *)

\* the tree of an argument alone: its operand, or the sum of its operands
ArgumentTree(chain) ==
    IF Len(chain) = 1 THEN OperandExpression(chain[1])
    ELSE BinaryOperandExpression(chain[2], OperandExpression(chain[1]),
                                 OperandExpression(chain[3]))

\* C30: parse_expression of f(e1, ..., en) yields the CallExpression of f
\* with n arguments, the k-th the tree of ek alone, in the order of the
\* source: no operator of an argument takes an operand of another one
CallArgumentsParsedAlone ==
    \A args \in ArgumentLists :
        (ir.line = CallText(args) /\ pc \in {"expression", "fatal"}) =>
            /\ pc = "expression"
            /\ ir.built = << CallExpression(<<"f">>,
                                 [k \in 1..Len(args) |-> ArgumentTree(args[k])]) >>

====
